---- MODULE Spec2Model ----
(***************************************************************************)
(* A model of the bubble chart's layout core: the category percentage      *)
(* allocator (usePercentageCalculator.ts), the quadtree, the physics       *)
(* integrator and the layout session (usePixiBubbleChart.ts, in its two    *)
(* variants: the circle-overlap variant "part000" and the point-containment*)
(* variant "ts").                                                          *)
(***************************************************************************)
EXTENDS Integers, Sequences, FiniteSets, TLC

(***************************************************************************)
(* Bounds of the model.                                                    *)
(***************************************************************************)
\* counts of one category range over 0..MaxCount
MaxCount == 6
\* magnitudes given to radiusFromTotal range over 0..MaxMagnitude
MaxMagnitude == 10
\* the quadtree harness: inserts between two clears, the largest capacity
\* and the largest maxDepth tried
MaxInserts == 3
MaxCapacity == 2
MaxDepth == 2
\* fixed point: positions, radii and velocities are integers, UNIT to a pixel
UNIT == 20
MaxBubbles == 2
MaxTicks == 4
MaxEvents == 2
MaxSessionTicks == 2

VARIABLES
  pctData,     \* the SentimentData given to calculatePercentages
  pctRun,      \* what the call computed and returned
  radIn,       \* [variant, m1, m2, canvasWidth] given to radiusFromTotal
  radOut,      \* the two radii returned
  qtVariant,   \* the variant of the QuadTree under test
  qtTree,      \* the QuadTree
  qtBubbles,   \* the bubbles inserted since the last clear, by reference
  qtQuery,     \* the last queryRange: its range and what it returned
  phVariant,   \* the variant of the PhysicsManager and of the session
  phPm,        \* the PhysicsManager (physicsManagerCache in a session)
  phBubbles,   \* the batch (bubbleContainers.value), in order
  phCalls,     \* the handleBubbleCollision calls of the last step, in order
  phFound,     \* what each bubble's queryRange returned in the last step
  phTicks,     \* the number of updatePhysics steps made on the batch
  phLast,      \* the last updatePhysics under test: on the batch or on an
               \* empty array, what it left of the array, and whether an
               \* empty one came before
  phShadow,    \* the manager, batch and calls of a run that makes the steps
               \* on the batch only
  ssPhase,     \* "created", "awaiting" (initializePixi at its await), "mounted"
               \* or "unmounted"
  ssApp,       \* pixiApp: null, or the size of its renderer
  ssParent,    \* the size of the parent element, and window.innerWidth
  ssData,      \* data.value
  ssFrames,    \* the callbacks requestAnimationFrame has yet to run
  ssListening, \* resizeCanvas listens to the window's resize
  ssTicking,   \* updatePhysics is on the ticker
  ssLast,      \* lastCanvasWidth, lastCanvasHeight, lastTitleHeight
  ssTitle,     \* currentTitleText: null, or its height and y
  ssActive,    \* activeBubble: null, or the container, which is of the
               \* current batch or of one before
  ssTooltip,   \* tooltip.value
  ssSpawned,   \* the renderer size the batch was spawned for
  ssStale,     \* updatePhysics has run on a batch spawned for another size
  ssEvents     \* the number of events from outside: resizes, pointer
               \* events, calls of reinitialize

vars == <<pctData, pctRun, radIn, radOut, qtVariant, qtTree, qtBubbles, qtQuery,
          phVariant, phPm, phBubbles, phCalls, phFound, phTicks, phLast, phShadow,
          ssPhase, ssApp, ssParent, ssData, ssFrames, ssListening, ssTicking, ssLast,
          ssTitle, ssActive, ssTooltip, ssSpawned, ssStale, ssEvents>>

pctVars == <<pctData, pctRun>>
radVars == <<radIn, radOut>>
qtVars  == <<qtVariant, qtTree, qtBubbles, qtQuery>>
phVars  == <<phVariant, phPm, phBubbles, phCalls, phFound, phTicks, phLast, phShadow>>
ssVars  == <<ssPhase, ssApp, ssParent, ssData, ssFrames, ssListening, ssTicking, ssLast,
             ssTitle, ssActive, ssTooltip, ssSpawned, ssStale, ssEvents>>

\* an absent value, and a present one
None == << >>
Some(x) == <<x>>

\* x is there: said of the outcome of the first part of a loop before the
\* second part starts from it, so that the parts are computed in their order
Known(x) == x = x

(***************************************************************************)
(* IEEE-754 binary64 arithmetic, as far as calculatePercentages needs it.  *)
(* A finite non-zero double is [s, m, e]: sign s (1 or -1), m the 53 bits  *)
(* of the significand, most significant first (m[1] = 1), e the exponent,  *)
(* of value s * 1.m[2..53] * 2^e. Zero is [s |-> 0].                       *)
(***************************************************************************)
MANT_BITS == 53

Abs(i) == IF i < 0 THEN -i ELSE i

Sgn(i) == IF i < 0 THEN -1 ELSE IF i = 0 THEN 0 ELSE 1

Min(a, b) == IF a < b THEN a ELSE b

Max(a, b) == IF a > b THEN a ELSE b

\* the bit sequence of n in exactly k bits, most significant first
IntBits(n, k) == [i \in 1..k |-> (n \div 2^(k - i)) % 2]

\* the value of a short bit sequence
RECURSIVE BitsInt(_)
BitsInt(b) ==
  IF Len(b) = 0 THEN 0 ELSE 2 * BitsInt(SubSeq(b, 1, Len(b) - 1)) + b[Len(b)]

Zeros(k) == [i \in 1..k |-> 0]

AllZero(b) == \A i \in 1..Len(b) : b[i] = 0

\* b + 1 on a bit sequence, in Len(b) + 1 bits (the first is the carry out)
BitsInc(b) ==
  LET n     == Len(b)
      zeros == {i \in 1..n : b[i] = 0}
      last  == IF zeros = {} THEN 0 ELSE CHOOSE i \in zeros : \A j \in zeros : j <= i
  IN  [i \in 1..(n + 1) |->
         IF i - 1 < last THEN (IF i = 1 THEN 0 ELSE b[i - 1])
         ELSE IF i - 1 = last THEN 1
         ELSE 0]

\* b without its leading zeros
StripZeros(b) ==
  LET ones == {i \in 1..Len(b) : b[i] = 1}
  IN  IF ones = {} THEN << >>
      ELSE SubSeq(b, CHOOSE i \in ones : \A j \in ones : i <= j, Len(b))

\* Round to nearest, ties to even: a significand of any length >= 53 whose
\* first bit is 1 and whose last bit weighs 2^lsbExp, plus a sticky flag for
\* what lies below it, to a double.
RoundToDouble(s, bits, lsbExp, sticky) ==
  LET n     == Len(bits)
      keep  == SubSeq(bits, 1, MANT_BITS)
      guard == IF n > MANT_BITS THEN bits[MANT_BITS + 1] ELSE 0
      rest  == IF n > MANT_BITS + 1 THEN SubSeq(bits, MANT_BITS + 2, n) ELSE << >>
      below == sticky \/ ~AllZero(rest)
      up    == guard = 1 /\ (below \/ keep[MANT_BITS] = 1)
      inc   == BitsInc(keep)
      e     == lsbExp + n - 1
  IN  IF ~up THEN [s |-> s, m |-> keep, e |-> e]
      ELSE IF inc[1] = 1 THEN [s |-> s, m |-> SubSeq(inc, 1, MANT_BITS), e |-> e + 1]
      ELSE [s |-> s, m |-> Tail(inc), e |-> e]

\* Long division in base 2^LIMB_BITS: the first k limbs of r / d below the
\* point (r < d), most significant first, followed by the remainder
LIMB_BITS == 9

RECURSIVE FracLimbs(_, _, _)
FracLimbs(r, d, k) ==
  IF k = 0 THEN <<r>>
  ELSE <<(r * 2^LIMB_BITS) \div d>> \o FracLimbs((r * 2^LIMB_BITS) % d, d, k - 1)

\* the bits of a sequence of limbs
LimbBits(limbs) ==
  [i \in 1..(LIMB_BITS * Len(limbs)) |->
     IntBits(limbs[((i - 1) \div LIMB_BITS) + 1], LIMB_BITS)[((i - 1) % LIMB_BITS) + 1]]

\* the limbs of a bit sequence whose length is a multiple of LIMB_BITS
BitLimbs(b) ==
  [j \in 1..(Len(b) \div LIMB_BITS) |->
     BitsInt(SubSeq(b, (j - 1) * LIMB_BITS + 1, j * LIMB_BITS))]

\* limbs * c + carry, for a small c: the carry out followed by the limbs
RECURSIVE LimbsTimes(_, _, _)
LimbsTimes(limbs, c, carry) ==
  IF Len(limbs) = 0 THEN <<carry>>
  ELSE LET n == Len(limbs)
           t == limbs[n] * c + carry
       IN  Append(LimbsTimes(SubSeq(limbs, 1, n - 1), c, t \div 2^LIMB_BITS),
                  t % 2^LIMB_BITS)

\* n / d scaled into [1, 2): [n, d, e] with n / d * 2^e the quotient
RECURSIVE Normalise(_, _, _)
Normalise(n, d, e) ==
  IF n >= 2 * d THEN Normalise(n, 2 * d, e + 1)
  ELSE IF n < d THEN Normalise(2 * n, d, e - 1)
  ELSE [n |-> n, d |-> d, e |-> e]

\* the double nearest to a / b, for integers a and b # 0 (JavaScript's a / b
\* on numbers that hold small integers)
FDiv(a, b) ==
  IF a = 0 THEN [s |-> 0]
  ELSE LET q     == Normalise(Abs(a), Abs(b), 0)
           limbs == FracLimbs(q.n - q.d, q.d, 6)
           bits  == <<1>> \o LimbBits(SubSeq(limbs, 1, 6))
       IN  RoundToDouble(Sgn(a) * Sgn(b), bits, q.e - 6 * LIMB_BITS, limbs[7] # 0)

\* the double nearest to f * 100
FMul100(f) ==
  IF f.s = 0 THEN f
  ELSE LET prod == LimbsTimes(BitLimbs(<<0>> \o f.m), 100, 0)
           bits == StripZeros(IntBits(prod[1], LIMB_BITS) \o LimbBits(Tail(prod)))
       IN  RoundToDouble(f.s, bits, f.e - (MANT_BITS - 1), FALSE)

\* A double split at the binary point: [s, int, frac] with |value| =
\* int + 0.frac (frac a bit sequence). Holds for |value| < 2^31.
FSplit(f) ==
  IF f.s = 0 THEN [s |-> 0, int |-> 0, frac |-> << >>]
  ELSE IF f.e < 0
    THEN [s |-> f.s, int |-> 0, frac |-> Zeros(-f.e - 1) \o f.m]
  ELSE IF f.e >= MANT_BITS - 1
    THEN [s |-> f.s, int |-> BitsInt(f.m) * 2^(f.e - (MANT_BITS - 1)), frac |-> << >>]
  ELSE [s |-> f.s, int |-> BitsInt(SubSeq(f.m, 1, f.e + 1)),
        frac |-> SubSeq(f.m, f.e + 2, MANT_BITS)]

\* Math.floor in the place of Math.round: the largest integer not above f
MathFloor(f) ==
  LET p == FSplit(f)
  IN  IF p.s >= 0 THEN p.int
      ELSE -(p.int + (IF AllZero(p.frac) THEN 0 ELSE 1))

\* Math.round: the integer nearest to f, a tie going towards +infinity
MathRound(f) ==
  LET p    == FSplit(f)
      half == p.frac # << >> /\ p.frac[1] = 1
      more == half /\ ~AllZero(Tail(p.frac))
  IN  IF p.s >= 0 THEN p.int + (IF half THEN 1 ELSE 0)
      ELSE -(p.int + (IF more THEN 1 ELSE 0))

\* 1 - 0.b for a bit sequence b that is not all zero
OneMinus(b) == Tail(BitsInc([i \in 1..Len(b) |-> 1 - b[i]]))

\* Math.abs(f - r) for the integer r = MathRound(f): a number in [0, 1/2],
\* exact in binary64, given as the bits below the binary point
AbsDiff(f, r) ==
  LET p == FSplit(f)
  IN  IF Abs(r) = p.int THEN p.frac ELSE OneMinus(p.frac)

\* a < b for two numbers in [0, 1] given by their bits below the point
FracLess(a, b) ==
  LET n    == Max(Len(a), Len(b))
      at(x, i) == IF i <= Len(x) THEN x[i] ELSE 0
      differ == {i \in 1..n : at(a, i) # at(b, i)}
  IN  differ # {} /\ LET i == CHOOSE i \in differ : \A j \in differ : i <= j
                     IN  at(a, i) < at(b, i)

(***************************************************************************)
(* usePercentageCalculator.ts                                              *)
(***************************************************************************)
KEYS == <<"positivo", "neutro", "negativo">>

\* Object.values(rounded).reduce((sum, val) => sum + val, 0)
SumValues(rounded) == rounded.positivo + rounded.neutro + rounded.negativo

\* the comparator reversed: (a, b) => diffA - diffB
ComparePositiveAscending(diffA, diffB) == FracLess(diffB, diffA)

\* the comparator of the sort: (a, b) => diffB - diffA, which is positive,
\* so that b goes before a, exactly when diffA < diffB
ComparePositive(diffA, diffB) == FracLess(diffA, diffB)

\* Array.prototype.sort, which is stable, on the keys: x is put before the
\* first sorted element the comparator orders after it
RECURSIVE InsertSorted(_, _, _)
InsertSorted(x, sorted, diff) ==
  IF sorted = << >> THEN <<x>>
  ELSE IF ComparePositive(diff[Head(sorted)], diff[x]) THEN <<x>> \o sorted
  ELSE <<Head(sorted)>> \o InsertSorted(x, Tail(sorted), diff)

RECURSIVE SortKeys(_, _)
SortKeys(keys, diff) ==
  IF keys = << >> THEN << >>
  ELSE InsertSorted(keys[Len(keys)], SortKeys(SubSeq(keys, 1, Len(keys) - 1), diff), diff)

\* calculatePercentages as it would be without its adjustment: the three
\* roundings returned as they are
PercentageRunRoundOnly(data) ==
  LET rounded == [k \in {"positivo", "neutro", "negativo"} |->
                    IF data.total = 0 THEN 0
                    ELSE MathRound(FMul100(FDiv(data[k], data.total)))]
  IN  [result |-> rounded, rounded |-> rounded, error |-> 0,
       keyToAdjust |-> "", adjustments |-> << >>, fallback |-> FALSE, diff |-> << >>]

\* calculatePercentages with what it computes on the way: the first
\* roundings, the error, the deviations |exact - rounded| (as bits below
\* the binary point), the sorted adjustments, the key adjusted ("" when none
\* is) and whether the last branch added a residual to negativo
PercentageRun(data) ==
  IF data.total = 0
  THEN [result |-> [positivo |-> 0, neutro |-> 0, negativo |-> 0],
        rounded |-> [positivo |-> 0, neutro |-> 0, negativo |-> 0],
        error |-> 0, keyToAdjust |-> "", adjustments |-> << >>, fallback |-> FALSE,
        diff |-> << >>]
  ELSE
    LET exact   == [k \in {"positivo", "neutro", "negativo"} |->
                      FMul100(FDiv(data[k], data.total))]
        rounded == [k \in {"positivo", "neutro", "negativo"} |-> MathRound(exact[k])]
        error   == 100 - SumValues(rounded)
        diff    == [k \in {"positivo", "neutro", "negativo"} |->
                      AbsDiff(exact[k], rounded[k])]
        adjustments == SortKeys(KEYS, diff)
        keyToAdjust == adjustments[1]
        adjusted == [rounded EXCEPT ![keyToAdjust] = @ + (IF error > 0 THEN 1 ELSE -1)]
        finalSum == SumValues(adjusted)
        final    == IF finalSum # 100
                    THEN [adjusted EXCEPT !.negativo = @ + (100 - finalSum)]
                    ELSE adjusted
    IN  IF error = 0
        THEN [result |-> rounded, rounded |-> rounded, error |-> 0,
              keyToAdjust |-> "", adjustments |-> << >>, fallback |-> FALSE,
              diff |-> << >>]
        ELSE [result |-> final, rounded |-> rounded, error |-> error,
              keyToAdjust |-> keyToAdjust, adjustments |-> adjustments,
              fallback |-> finalSum # 100, diff |-> diff]

CalculatePercentages(data) == PercentageRun(data).result

(***************************************************************************)
(* calculatePercentages on counts too large for the integers above. A     *)
(* number is [hi, lo] of value hi * 2^scale + lo, for one scale > 31 of    *)
(* the whole run, |hi| < 2^20 and |lo| < 2^30: every value the function    *)
(* meets on counts c * 2^scale that total divides has this form.           *)
(***************************************************************************)
\* the number of bits of n >= 0
BitLen(n) == CHOOSE k \in 0..30 : 2^k > n /\ (k = 0 \/ 2^(k - 1) <= n)

\* the double nearest to hi * 2^scale + lo, ties to even: what a sum or a
\* difference of two numbers is stored as
ToDouble(scale, hi, lo) ==
  IF hi = 0 THEN [hi |-> 0, lo |-> lo]
  ELSE LET sg   == Sgn(hi)
           a    == Abs(hi)
           l    == sg * lo
           bits == IF l < 0 /\ a = 2^(BitLen(a) - 1)
                   THEN BitLen(a) + scale - 1
                   ELSE BitLen(a) + scale
           k    == bits - MANT_BITS
       IN  IF k <= 0 THEN [hi |-> hi, lo |-> lo]
           ELSE LET u  == 2^k
                    r  == l % u
                    q  == (l - r) \div u
                    up == 2 * r > u \/ (2 * r = u /\ q % 2 = 1)
                IN  [hi |-> hi, lo |-> sg * (q + (IF up THEN 1 ELSE 0)) * u]

\* a + b and a - b on numbers
NumAdd(scale, a, b) == ToDouble(scale, a.hi + b.hi, a.lo + b.lo)

NumSub(scale, a, b) == ToDouble(scale, a.hi - b.hi, a.lo - b.lo)

Small(n) == [hi |-> 0, lo |-> n]

\* Object.values(rounded).reduce((sum, val) => sum + val, 0) on numbers
SumNumbers(scale, rounded) ==
  NumAdd(scale, NumAdd(scale, NumAdd(scale, Small(0), rounded.positivo), rounded.neutro),
         rounded.negativo)

\* calculatePercentages on [positivo, neutro, negativo, total, scale], the
\* counts being positivo * 2^scale, neutro * 2^scale and negativo * 2^scale.
\* With scale = 0 it is PercentageRun; with scale > 31 and counts that total
\* divides, count / total and its product by 100 are exact, Math.round
\* returns its argument and Math.abs(exact - rounded) is 0 for the three
\* keys. The result is in numbers.
PercentageRunScaled(data) ==
  IF data.scale = 0
  THEN LET run == PercentageRun([positivo |-> data.positivo, neutro |-> data.neutro,
                                 negativo |-> data.negativo, total |-> data.total])
       IN  [result |-> [k \in DOMAIN run.result |-> Small(run.result[k])],
            error |-> Small(run.error), keyToAdjust |-> run.keyToAdjust,
            fallback |-> run.fallback]
  ELSE
    LET scale   == data.scale
        exact   == [k \in {"positivo", "neutro", "negativo"} |->
                      [hi |-> (data[k] \div data.total) * 100, lo |-> 0]]
        rounded == exact
        error   == NumSub(scale, Small(100), SumNumbers(scale, rounded))
        diff    == [k \in {"positivo", "neutro", "negativo"} |-> << >>]
        adjustments == SortKeys(KEYS, diff)
        keyToAdjust == adjustments[1]
        positive == error.hi > 0 \/ (error.hi = 0 /\ error.lo > 0)
        adjusted == [rounded EXCEPT ![keyToAdjust] =
                       NumAdd(scale, @, Small(IF positive THEN 1 ELSE -1))]
        finalSum == SumNumbers(scale, adjusted)
        final    == IF finalSum # Small(100)
                    THEN [adjusted EXCEPT !.negativo =
                            NumAdd(scale, @, NumSub(scale, Small(100), finalSum))]
                    ELSE adjusted
    IN  IF error = Small(0)
        THEN [result |-> rounded, error |-> error, keyToAdjust |-> "", fallback |-> FALSE]
        ELSE [result |-> final, error |-> error, keyToAdjust |-> keyToAdjust,
              fallback |-> finalSum # Small(100)]

(***************************************************************************)
(* The quadtree (class QuadTree). variant is "part000" for the             *)
(* circle-overlap tree of src/unnamed/part_000 and "ts" for the            *)
(* point-containment tree of src/src/composables/usePixiBubbleChart.ts.    *)
(*                                                                         *)
(* A tree is [boundary, capacity, maxDepth, nodes]; nodes maps the path of *)
(* every node that exists (the sequence of quadrants from the root, so     *)
(* that currentDepth is the path's length) to [bubbles, divided]. The      *)
(* bubbles of a node are references: indices into the bubble table bs that *)
(* the operators take, as the code's nodes hold references to the bubble   *)
(* objects and read their coordinates when asked.                          *)
(*                                                                         *)
(* A rectangle is [x, y, width, height, den] with the real coordinates     *)
(* x / den, y / den, width / den, height / den: halving a width is exact   *)
(* in binary64, and den = 2^depth keeps it exact here.                     *)
(***************************************************************************)
VARIANTS == {"part000", "ts"}

\* the order in which insert and queryRange visit the children
QUADRANTS == <<"ne", "nw", "se", "sw">>

DEFAULT_CAPACITY == 100

DEFAULT_MAX_DEPTH == 10

Rect(x, y, width, height) ==
  [x |-> x, y |-> y, width |-> width, height |-> height, den |-> 1]

EmptyNode == [bubbles |-> << >>, divided |-> FALSE]

\* new QuadTree(boundary, capacity, maxDepth)
NewQuadTree(boundary, capacity, maxDepth) ==
  [boundary |-> boundary, capacity |-> capacity, maxDepth |-> maxDepth,
   nodes |-> [p \in {<< >>} |-> EmptyNode]]

\* children that are given the region of their parent
ChildBoundaryWhole(b, q) == b

\* the boundary subdivide gives the child in quadrant q
ChildBoundary(b, q) ==
  [x |-> 2 * b.x + (IF q \in {"ne", "se"} THEN b.width ELSE 0),
   y |-> 2 * b.y + (IF q \in {"se", "sw"} THEN b.height ELSE 0),
   width |-> b.width, height |-> b.height, den |-> 2 * b.den]

RECURSIVE BoundaryOf(_, _)
BoundaryOf(root, path) ==
  IF Len(path) = 0 THEN root
  ELSE ChildBoundary(BoundaryOf(root, SubSeq(path, 1, Len(path) - 1)), path[Len(path)])

\* QuadTree.contains
Contains(variant, boundary, bubble) ==
  IF variant = "part000"
  THEN /\ (bubble.x + bubble.radius) * boundary.den >= boundary.x
       /\ (bubble.x - bubble.radius) * boundary.den < boundary.x + boundary.width
       /\ (bubble.y + bubble.radius) * boundary.den >= boundary.y
       /\ (bubble.y - bubble.radius) * boundary.den < boundary.y + boundary.height
  ELSE /\ bubble.x * boundary.den >= boundary.x
       /\ bubble.x * boundary.den < boundary.x + boundary.width
       /\ bubble.y * boundary.den >= boundary.y
       /\ bubble.y * boundary.den < boundary.y + boundary.height

\* QuadTree.intersects
Intersects(boundary, range) ==
  ~ \/ range.x * boundary.den > boundary.x + boundary.width
    \/ (range.x + range.width) * boundary.den < boundary.x
    \/ range.y * boundary.den > boundary.y + boundary.height
    \/ (range.y + range.height) * boundary.den < boundary.y

\* the test queryRange makes on a bubble stored in a node: the circle's
\* bounding box against the range in part_000, pointInRectangle in the other
InRange(variant, bubble, range) ==
  IF variant = "part000"
  THEN /\ bubble.x - bubble.radius < range.x + range.width
       /\ bubble.x + bubble.radius > range.x
       /\ bubble.y - bubble.radius < range.y + range.height
       /\ bubble.y + bubble.radius > range.y
  ELSE /\ bubble.x >= range.x
       /\ bubble.x < range.x + range.width
       /\ bubble.y >= range.y
       /\ bubble.y < range.y + range.height

\* this.bubbles.push(bubble) in the node at path
Push(tree, path, b) ==
  [tree EXCEPT !.nodes[path].bubbles = Append(@, b)]

\* subdivide forgetting this.bubbles = []
WithChildrenKeepingBubbles(tree, path) ==
  LET kids == {Append(path, QUADRANTS[i]) : i \in 1..4}
  IN  [tree EXCEPT !.nodes =
         [p \in (DOMAIN tree.nodes) \cup kids |->
            IF p \in kids THEN EmptyNode
            ELSE IF p = path THEN [bubbles |-> tree.nodes[p].bubbles, divided |-> TRUE]
            ELSE tree.nodes[p]]]

\* the first half of subdivide: the four children, divided = true and
\* this.bubbles = []
WithChildren(tree, path) ==
  LET kids == {Append(path, QUADRANTS[i]) : i \in 1..4}
  IN  [tree EXCEPT !.nodes =
         [p \in (DOMAIN tree.nodes) \cup kids |->
            IF p \in kids THEN EmptyNode
            ELSE IF p = path THEN [bubbles |-> << >>, divided |-> TRUE]
            ELSE tree.nodes[p]]]

RECURSIVE Insert(_, _, _, _, _)
RECURSIVE InsertInChildren(_, _, _, _, _, _)
RECURSIVE Subdivide(_, _, _, _)
RECURSIVE Reinsert(_, _, _, _, _)

\* insert with currentDepth > maxDepth for its second test
InsertOneDeeper(variant, tree, path, b, bs) ==
  LET node == tree.nodes[path]
  IN  IF ~Contains(variant, BoundaryOf(tree.boundary, path), bs[b])
        THEN [ok |-> FALSE, tree |-> tree]
      ELSE IF ~node.divided /\ Len(node.bubbles) < tree.capacity
        THEN [ok |-> TRUE, tree |-> Push(tree, path, b)]
      ELSE IF Len(path) > tree.maxDepth
        THEN [ok |-> TRUE, tree |-> Push(tree, path, b)]
      ELSE InsertInChildren(
             variant,
             IF ~node.divided THEN Subdivide(variant, tree, path, bs) ELSE tree,
             path, b, bs, 1)

\* QuadTree.insert on the node at path: [ok, tree]
Insert(variant, tree, path, b, bs) ==
  LET node == tree.nodes[path]
  IN  IF ~Contains(variant, BoundaryOf(tree.boundary, path), bs[b])
        THEN [ok |-> FALSE, tree |-> tree]
      ELSE IF ~node.divided /\ Len(node.bubbles) < tree.capacity
        THEN [ok |-> TRUE, tree |-> Push(tree, path, b)]
      ELSE IF Len(path) >= tree.maxDepth
        THEN [ok |-> TRUE, tree |-> Push(tree, path, b)]
      ELSE InsertInChildren(
             variant,
             IF ~node.divided THEN Subdivide(variant, tree, path, bs) ELSE tree,
             path, b, bs, 1)

\* northeast.insert || northwest.insert || southeast.insert ||
\* southwest.insert || push, from the q-th child on
InsertInChildren(variant, tree, path, b, bs, q) ==
  IF q > 4 THEN [ok |-> TRUE, tree |-> Push(tree, path, b)]
  ELSE LET r == Insert(variant, tree, Append(path, QUADRANTS[q]), b, bs)
       IN  IF r.ok THEN r
           ELSE InsertInChildren(variant, tree, path, b, bs, q + 1)

\* QuadTree.subdivide
Subdivide(variant, tree, path, bs) ==
  Reinsert(variant, WithChildren(tree, path), path, tree.nodes[path].bubbles, bs)

\* the loop of subdivide over oldBubbles. part_000 inserts each again through
\* this.insert (and would keep it here if that failed); the other variant
\* puts it, by directInsert, in the first child that contains it, and in
\* none when no child does. The loop over a list of several is the loop
\* over its first half followed by the loop over its second half.
Reinsert(variant, tree, path, oldBubbles, bs) ==
  IF Len(oldBubbles) = 0 THEN tree
  ELSE IF Len(oldBubbles) > 1
    THEN LET half  == Len(oldBubbles) \div 2
             first == Reinsert(variant, tree, path, SubSeq(oldBubbles, 1, half), bs)
         IN  IF Known(first)
             THEN Reinsert(variant, first, path,
                           SubSeq(oldBubbles, half + 1, Len(oldBubbles)), bs)
             ELSE first
  ELSE
    LET b == Head(oldBubbles)
        next ==
          IF variant = "part000"
          THEN LET r == Insert(variant, tree, path, b, bs)
               IN  IF r.ok THEN r.tree ELSE Push(tree, path, b)
          ELSE LET into == {q \in 1..4 :
                              Contains(variant,
                                       BoundaryOf(tree.boundary, Append(path, QUADRANTS[q])),
                                       bs[b])}
               IN  IF into = {} THEN tree
                   ELSE Push(tree,
                             Append(path, QUADRANTS[CHOOSE q \in into : \A o \in into : q <= o]),
                             b)
    IN  next

\* a clear that keeps the entities and the children of the tree
ClearNothing(tree) == tree

\* QuadTree.clear, on the root
Clear(tree) == [tree EXCEPT !.nodes = [p \in {<< >>} |-> EmptyNode]]

\* QuadTree.queryRange on the node at path: the references found, in order
RECURSIVE QueryRange(_, _, _, _, _)
QueryRange(variant, tree, path, range, bs) ==
  IF ~Intersects(BoundaryOf(tree.boundary, path), range) THEN << >>
  ELSE
    LET node == tree.nodes[path]
        here == SelectSeq(node.bubbles, LAMBDA b : InRange(variant, bs[b], range))
        sub(q) == QueryRange(variant, tree, Append(path, QUADRANTS[q]), range, bs)
    IN  IF node.divided THEN here \o sub(1) \o sub(2) \o sub(3) \o sub(4)
        ELSE here

(***************************************************************************)
(* The size mapper (radiusFromTotal). Widths are in pixels, the radius is  *)
(* in fixed point.                                                         *)
(***************************************************************************)
\* the largest r with r * r <= n
RECURSIVE SqrtFrom(_, _, _)
SqrtFrom(n, r, bit) ==
  IF bit = 0 THEN r
  ELSE IF (r + bit) * (r + bit) <= n THEN SqrtFrom(n, r + bit, bit \div 2)
  ELSE SqrtFrom(n, r, bit \div 2)

ISqrt(n) == SqrtFrom(n, 0, 2^15)

\* RESPONSIVE_CONFIG.scale, the values in tenths
SCALE_BREAKPOINTS == <<480, 640, 768, 1024, 1280, 1600>>
SCALE_VALUES10 == <<13, 14, 16, 17, 18, 19, 20>>

\* getResponsiveValue(width, RESPONSIVE_CONFIG.scale), in tenths
GetResponsiveScaleFactor10(canvasWidth) ==
  LET below == {i \in 1..Len(SCALE_BREAKPOINTS) : canvasWidth < SCALE_BREAKPOINTS[i]}
  IN  IF below = {} THEN SCALE_VALUES10[Len(SCALE_VALUES10)]
      ELSE SCALE_VALUES10[CHOOSE i \in below : \A j \in below : i <= j]

\* the floor of the radius: 15 * scaleFactor in part_000, 30 in the other
RadiusFloor(variant, canvasWidth) ==
  IF variant = "part000"
  THEN (15 * GetResponsiveScaleFactor10(canvasWidth) * UNIT) \div 10
  ELSE 30 * UNIT

\* radiusFromTotal without its floor
RadiusFromTotalNoFloor(variant, total, canvasWidth) ==
  IF variant = "part000"
  THEN (ISqrt(total * UNIT * UNIT) * 6 * GetResponsiveScaleFactor10(canvasWidth)) \div 10
  ELSE ISqrt(total * UNIT * UNIT) * 8

\* radiusFromTotal: Math.max(15 * s, Math.sqrt(total) * 6 * s) in part_000,
\* Math.max(30, Math.sqrt(total) * 8) in the other
RadiusFromTotal(variant, total, canvasWidth) ==
  IF variant = "part000"
  THEN Max(RadiusFloor(variant, canvasWidth),
           (ISqrt(total * UNIT * UNIT) * 6 * GetResponsiveScaleFactor10(canvasWidth)) \div 10)
  ELSE Max(RadiusFloor(variant, canvasWidth), ISqrt(total * UNIT * UNIT) * 8)

(***************************************************************************)
(* The allocator under test: calculatePercentages is called once on an     *)
(* input whose three counts sum to its total.                              *)
(***************************************************************************)
ConsistentData ==
  {[positivo |-> p, neutro |-> n, negativo |-> g, total |-> p + n + g] :
     p \in 0..MaxCount, n \in 0..MaxCount, g \in 0..MaxCount}

PctParked == pctData = None /\ pctRun = None
RadParked == radIn = None /\ radOut = None
QtParked  == qtVariant = None /\ qtTree = None /\ qtBubbles = None /\ qtQuery = None
PhParked  ==
  /\ phVariant = None /\ phPm = None /\ phBubbles = None
  /\ phCalls = None /\ phFound = None /\ phTicks = None
  /\ phLast = None /\ phShadow = None
SsParked  ==
  /\ ssPhase = None /\ ssApp = None /\ ssParent = None /\ ssData = None
  /\ ssFrames = None /\ ssListening = None /\ ssTicking = None /\ ssLast = None
  /\ ssTitle = None /\ ssActive = None /\ ssTooltip = None /\ ssSpawned = None
  /\ ssStale = None /\ ssEvents = None

PctInit ==
  /\ pctData \in {Some(d) : d \in ConsistentData}
  /\ pctRun = None
  /\ RadParked /\ QtParked /\ PhParked /\ SsParked

PctCall ==
  /\ pctRun = None
  /\ pctRun' = Some(PercentageRun(pctData[1]))
  /\ UNCHANGED <<pctData, radVars, qtVars, phVars, ssVars>>

PctNext == PctCall

SpecPct == PctInit /\ [][PctNext]_vars

(***************************************************************************)
(* The allocator on any integers: the counts need not sum to the total,    *)
(* may be negative, and may be as large as a double holds exactly.         *)
(***************************************************************************)
MaxSkew == 2

MaxTotal == 3

WideScale == 47

AnyData ==
  {[positivo |-> p, neutro |-> n, negativo |-> g, total |-> t, scale |-> 0] :
     p \in (-MaxSkew)..MaxCount, n \in (-MaxSkew)..MaxCount, g \in (-MaxSkew)..MaxCount,
     t \in 1..MaxTotal}
  \cup
  {[positivo |-> p * t, neutro |-> n * t, negativo |-> g * t, total |-> t,
    scale |-> WideScale] :
     p \in 0..MaxTotal, n \in 0..MaxTotal, g \in 0..MaxTotal, t \in 1..MaxTotal}

PctAnyInit ==
  /\ pctData \in {Some(d) : d \in AnyData}
  /\ pctRun = None
  /\ RadParked /\ QtParked /\ PhParked /\ SsParked

PctAnyCall ==
  /\ pctRun = None
  /\ pctRun' = Some(PercentageRunScaled(pctData[1]))
  /\ UNCHANGED <<pctData, radVars, qtVars, phVars, ssVars>>

PctAnyNext == PctAnyCall

SpecPctAny == PctAnyInit /\ [][PctAnyNext]_vars

(***************************************************************************)
(* The size mapper under test: radiusFromTotal is called on two magnitudes *)
(* for one canvas width.                                                   *)
(***************************************************************************)
RadWidths == {320, 479, 480, 800, 1599, 1600}

RadInit ==
  /\ radIn \in {Some([variant |-> v, m1 |-> a, m2 |-> b, canvasWidth |-> w]) :
                  v \in VARIANTS, a \in 0..MaxMagnitude, b \in 0..MaxMagnitude,
                  w \in RadWidths}
  /\ radOut = None
  /\ PctParked /\ QtParked /\ PhParked /\ SsParked

RadCall ==
  /\ radOut = None
  /\ LET i == radIn[1]
     IN  radOut' = Some([r1 |-> RadiusFromTotal(i.variant, i.m1, i.canvasWidth),
                         r2 |-> RadiusFromTotal(i.variant, i.m2, i.canvasWidth),
                         r0 |-> RadiusFromTotal(i.variant, 0, i.canvasWidth)])
  /\ UNCHANGED <<radIn, pctVars, qtVars, phVars, ssVars>>

RadNext == RadCall

SpecRad == RadInit /\ [][RadNext]_vars

(***************************************************************************)
(* The quadtree under test: a tree over a square root region, of any       *)
(* capacity and maxDepth within the bounds, takes inserts of circles that  *)
(* lie inside the root region, range queries and clears.                   *)
(***************************************************************************)
QtSize == 2^(MaxDepth + 2)

QtRoot == Rect(0, 0, QtSize, QtSize)

Circle(x, y, radius) == [x |-> x, y |-> y, radius |-> radius]

\* circles inside the root region: small ones in each quadrant, ones that
\* straddle the lines between quadrants, one around the centre
QtCircles ==
  LET q == QtSize \div 4
  IN  {Circle(q, q, 1), Circle(3 * q, q, 1), Circle(q, 3 * q, 1),
       Circle(2 * q, q, 2), Circle(2 * q + 1, 2 * q + 1, 2), Circle(2 * q, 2 * q, q)}

\* the root region, a quadrant short of the middle lines, a rectangle
\* inside the south-east quadrant, one across the centre
QtRanges ==
  LET h == QtSize \div 2
  IN  {QtRoot, Rect(0, 0, h - 1, h - 1), Rect(h + 1, h + 1, h - 2, h - 2),
       Rect(h \div 2, h \div 2, h, h)}

QtInit ==
  /\ qtVariant \in VARIANTS
  /\ qtTree \in {NewQuadTree(QtRoot, c, d) : c \in 1..MaxCapacity, d \in 0..MaxDepth}
  /\ qtBubbles = << >>
  /\ qtQuery = None
  /\ PctParked /\ RadParked /\ PhParked /\ SsParked

QtInsert(c) ==
  /\ Len(qtBubbles) < MaxInserts
  /\ LET bs == Append(qtBubbles, c)
     IN  /\ qtBubbles' = bs
         /\ qtTree' = Insert(qtVariant, qtTree, << >>, Len(bs), bs).tree
  /\ qtQuery' = None
  /\ UNCHANGED <<qtVariant, pctVars, radVars, phVars, ssVars>>

QtQueryRange(range) ==
  /\ qtQuery' = Some([range |-> range,
                      found |-> QueryRange(qtVariant, qtTree, << >>, range, qtBubbles)])
  /\ UNCHANGED <<qtVariant, qtTree, qtBubbles, pctVars, radVars, phVars, ssVars>>

QtClear ==
  /\ qtBubbles # << >>
  /\ qtTree' = Clear(qtTree)
  /\ qtBubbles' = << >>
  /\ qtQuery' = None
  /\ UNCHANGED <<qtVariant, pctVars, radVars, phVars, ssVars>>

QtNext ==
  \/ \E c \in QtCircles : QtInsert(c)
  \/ \E range \in QtRanges : QtQueryRange(range)
  \/ QtClear

SpecQt == QtInit /\ [][QtNext]_vars

(***************************************************************************)
(* Properties of the allocator.                                            *)
(***************************************************************************)
\* C1: for non-negative integer counts with total = positivo + neutro +
\* negativo, calculatePercentages returns three non-negative integers that
\* sum to exactly 100 when total > 0, and (0, 0, 0) when total = 0.
C1_PercentagesSumTo100 ==
  pctRun # None =>
    LET d == pctData[1]
        r == pctRun[1].result
    IN  IF d.total = 0
        THEN r = [positivo |-> 0, neutro |-> 0, negativo |-> 0]
        ELSE /\ \A k \in DOMAIN r : r[k] \in Nat
             /\ r.positivo + r.neutro + r.negativo = 100

\* a call on which the roundings summed to 101 and one was lowered
C1_Witness ==
  /\ pctRun # None
  /\ pctData[1].total > 0
  /\ pctRun[1].error = -1
  /\ pctRun[1].result # pctRun[1].rounded

\* the key whose deviation is the largest, the earliest of them on a tie
LargestDeviation(diff) ==
  CHOOSE i \in 1..3 :
    /\ \A j \in 1..3 : ~FracLess(diff[KEYS[i]], diff[KEYS[j]])
    /\ \A j \in 1..(i - 1) : FracLess(diff[KEYS[j]], diff[KEYS[i]])

C7_RadiusMonotone ==
  radOut # None =>
    LET i     == radIn[1]
        o     == radOut[1]
        floor == IF i.variant = "part000"
                 THEN (15 * GetResponsiveScaleFactor10(i.canvasWidth) * UNIT) \div 10
                 ELSE 30 * UNIT
    IN  /\ i.m1 > i.m2 => o.r1 >= o.r2
        /\ o.r1 >= floor /\ o.r2 >= floor
        /\ o.r0 = floor

\* two magnitudes of which the smaller is held at the floor and the larger
\* is above it
C7_Witness ==
  /\ radOut # None
  /\ radIn[1].m1 > radIn[1].m2
  /\ radIn[1].m2 > 0
  /\ radOut[1].r2 = radOut[1].r0
  /\ radOut[1].r1 > radOut[1].r2

(***************************************************************************)
(* Properties of the quadtree.                                             *)
(***************************************************************************)
\* how often reference b occurs in the sequence found
Occurrences(found, b) == Cardinality({i \in 1..Len(found) : found[i] = b})

\* C3: after any sequence of inserts of circles inside the root region, for
\* every capacity >= 1 and maxDepth >= 0, queryRange over the root boundary
\* returns each inserted entity exactly once.
C3_QueryRootReturnsEachOnce ==
  (qtQuery # None /\ qtQuery[1].range = QtRoot) =>
    \A b \in 1..Len(qtBubbles) : Occurrences(qtQuery[1].found, b) = 1

\* a query over the root of a tree that holds MaxInserts entities and was
\* subdivided twice, which returned them all
C3_Witness ==
  /\ qtQuery # None
  /\ qtQuery[1].range = QtRoot
  /\ Len(qtBubbles) = MaxInserts
  /\ Len(qtQuery[1].found) = MaxInserts
  /\ \E p \in DOMAIN qtTree.nodes : Len(p) = 2

\* C4: in the circle-overlap quadtree of part_000, after any sequence of
\* inserts, queryRange returns, for every query rectangle, every inserted
\* entity whose bounding circle intersects the rectangle.
C4_RangeQueryComplete ==
  (qtVariant = "part000" /\ qtQuery # None) =>
    \A b \in 1..Len(qtBubbles) :
      InRange("part000", qtBubbles[b], qtQuery[1].range) =>
        Occurrences(qtQuery[1].found, b) >= 1

(***************************************************************************)
(* The integrator (PhysicsManager). Coordinates, radii and velocities are  *)
(* in fixed point, UNIT steps to the pixel; a product with a decimal       *)
(* constant is truncated toward zero. The comparisons of a distance        *)
(* (distance < minDistance, distance > 0, distanceToCenter > 150) are made *)
(* exactly, on the squares.                                                *)
(***************************************************************************)
\* PHYSICS_CONFIG: damping in hundredths, attractionForce in thousandths,
\* repulsionMultiplier and largeBubbleThreshold in tenths, strongCenterForce
\* in hundredths; the other variant has the first five entries, with the
\* same values
PHYSICS_CONFIG ==
  [damping100 |-> 85, desiredSpacing |-> 25, attractionForce1000 |-> 2,
   repulsionMultiplier10 |-> 1, bounceMultiplier |-> -1,
   largeBubbleThreshold10 |-> 7, centerZoneRadius |-> 150,
   strongCenterForce100 |-> 1]

\* a / b truncated toward zero, b > 0
Trunc(a, b) == IF a >= 0 THEN a \div b ELSE -((-a) \div b)

\* Math.max(...[]) is -Infinity
NegInfinity == -(2^30)

\* new PhysicsManager(canvasWidth, canvasHeight, titleHeight)
NewPhysicsManager(canvasWidth, canvasHeight, titleHeight) ==
  [canvasWidth |-> canvasWidth,
   canvasHeight |-> canvasHeight,
   topBoundary |-> titleHeight,
   centerX |-> Trunc(canvasWidth, 2),
   centerY |-> titleHeight + Trunc((canvasHeight - titleHeight) * 4, 10),
   maxBubbleSize |-> 0,
   quadTree |-> NewQuadTree(Rect(0, titleHeight, canvasWidth, canvasHeight - titleHeight),
                            DEFAULT_CAPACITY, DEFAULT_MAX_DEPTH)]

\* bubble.vx *= damping; bubble.vy *= damping
ApplyDamping(bubble) ==
  [bubble EXCEPT !.vx = Trunc(@ * PHYSICS_CONFIG.damping100, 100),
                 !.vy = Trunc(@ * PHYSICS_CONFIG.damping100, 100)]

\* bubble.x += bubble.vx; bubble.y += bubble.vy
UpdatePosition(bubble) ==
  [bubble EXCEPT !.x = @ + bubble.vx, !.y = @ + bubble.vy]

\* the walls without the clamp of the position
HandleWallCollisionsNoClamp(pm, bubble) ==
  LET b1 == IF \/ bubble.x + bubble.radius > pm.canvasWidth
               \/ bubble.x - bubble.radius < 0
            THEN [bubble EXCEPT !.vx = @ * PHYSICS_CONFIG.bounceMultiplier]
            ELSE bubble
      minY == pm.topBoundary + bubble.radius
  IN  IF \/ b1.y + b1.radius > pm.canvasHeight
         \/ b1.y - b1.radius < minY
      THEN [b1 EXCEPT !.vy = @ * PHYSICS_CONFIG.bounceMultiplier]
      ELSE b1

\* the walls without the reversal of the velocity
HandleWallCollisionsNoBounce(pm, bubble) ==
  LET minY == pm.topBoundary + bubble.radius
      maxY == pm.canvasHeight - bubble.radius
  IN  [bubble EXCEPT !.x = Max(bubble.radius, Min(pm.canvasWidth - bubble.radius, @)),
                     !.y = Max(minY, Min(maxY, @))]

\* the walls: the two tests of updateBubblePhysics (handleWallCollisions in
\* the other variant), each reversing a velocity and clamping a coordinate
HandleWallCollisions(pm, bubble) ==
  LET b1 == IF \/ bubble.x + bubble.radius > pm.canvasWidth
               \/ bubble.x - bubble.radius < 0
            THEN [bubble EXCEPT
                    !.vx = @ * PHYSICS_CONFIG.bounceMultiplier,
                    !.x = Max(bubble.radius, Min(pm.canvasWidth - bubble.radius, @))]
            ELSE bubble
      minY == pm.topBoundary + bubble.radius
      maxY == pm.canvasHeight - bubble.radius
  IN  IF \/ b1.y + b1.radius > pm.canvasHeight
         \/ b1.y - b1.radius < minY
      THEN [b1 EXCEPT !.vy = @ * PHYSICS_CONFIG.bounceMultiplier,
                      !.y = Max(minY, Min(maxY, @))]
      ELSE b1

\* every bubble of part_000 taken for a large one
IsLargeBubbleAlways(variant, pm, bubble) == variant = "part000"

\* sizeRatio >= largeBubbleThreshold, sizeRatio being
\* bubble.radius / (this.maxBubbleSize || bubble.radius); 0 / 0 is NaN
IsLargeBubble(variant, pm, bubble) ==
  /\ variant = "part000"
  /\ LET den == IF pm.maxBubbleSize = 0 THEN bubble.radius ELSE pm.maxBubbleSize
     IN  \/ den > 0 /\ bubble.radius * 10 >= PHYSICS_CONFIG.largeBubbleThreshold10 * den
         \/ den < 0 /\ bubble.radius * 10 <= PHYSICS_CONFIG.largeBubbleThreshold10 * den

\* the pull to the centre: attractionForce for every bubble of the other
\* variant and the bubbles of part_000 that are not large, strongCenterForce
\* (plus escapeForce outside the centre zone) for its large ones
ApplyAttractionToCenter(variant, pm, bubble) ==
  LET dxToCenter == pm.centerX - bubble.x
      dyToCenter == pm.centerY - bubble.y
      d2 == dxToCenter * dxToCenter + dyToCenter * dyToCenter
      zone == PHYSICS_CONFIG.centerZoneRadius * UNIT
  IN  IF IsLargeBubble(variant, pm, bubble)
      THEN IF d2 > zone * zone
           THEN \* centerForce + (distanceToCenter - centerZoneRadius) * 0.0001,
                \* in steps of 1 / (10000 * UNIT)
                LET force == PHYSICS_CONFIG.strongCenterForce100 * 100 * UNIT
                               + (ISqrt(d2) - zone)
                IN  [bubble EXCEPT !.vx = @ + Trunc(dxToCenter * force, 10000 * UNIT),
                                   !.vy = @ + Trunc(dyToCenter * force, 10000 * UNIT)]
           ELSE [bubble EXCEPT
                   !.vx = @ + Trunc(dxToCenter * PHYSICS_CONFIG.strongCenterForce100, 100),
                   !.vy = @ + Trunc(dyToCenter * PHYSICS_CONFIG.strongCenterForce100, 100)]
      ELSE [bubble EXCEPT
              !.vx = @ + Trunc(dxToCenter * PHYSICS_CONFIG.attractionForce1000, 1000),
              !.vy = @ + Trunc(dyToCenter * PHYSICS_CONFIG.attractionForce1000, 1000)]

\* updateBubblePhysics (the four calls of the loop of updatePhysics in the
\* other variant)
UpdateBubblePhysics(variant, pm, bubble) ==
  ApplyAttractionToCenter(variant, pm,
    HandleWallCollisions(pm, UpdatePosition(ApplyDamping(bubble))))

\* a repulsion that pushes bubbleA away and moves bubbleB with it
RepelledSameWay(bubbleA, bubbleB, dx, dy, distance, minDistance) ==
  LET overlap == minDistance - distance
      repulsionVx == IF distance = 0
                     THEN Trunc(overlap * PHYSICS_CONFIG.repulsionMultiplier10, 10)
                     ELSE Trunc(dx * overlap * PHYSICS_CONFIG.repulsionMultiplier10,
                                distance * 10)
      repulsionVy == IF distance = 0 THEN 0
                     ELSE Trunc(dy * overlap * PHYSICS_CONFIG.repulsionMultiplier10,
                                distance * 10)
  IN  [a |-> [bubbleA EXCEPT !.vx = @ - repulsionVx, !.vy = @ - repulsionVy],
       b |-> [bubbleB EXCEPT !.vx = @ - repulsionVx, !.vy = @ - repulsionVy]]

\* the repulsion of two bubbles closer than minDistance, along (dx, dy);
\* Math.atan2(0, 0) is 0, so that the direction at distance 0 is (1, 0)
Repelled(bubbleA, bubbleB, dx, dy, distance, minDistance) ==
  LET overlap == minDistance - distance
      repulsionVx == IF distance = 0
                     THEN Trunc(overlap * PHYSICS_CONFIG.repulsionMultiplier10, 10)
                     ELSE Trunc(dx * overlap * PHYSICS_CONFIG.repulsionMultiplier10,
                                distance * 10)
      repulsionVy == IF distance = 0 THEN 0
                     ELSE Trunc(dy * overlap * PHYSICS_CONFIG.repulsionMultiplier10,
                                distance * 10)
  IN  [a |-> [bubbleA EXCEPT !.vx = @ - repulsionVx, !.vy = @ - repulsionVy],
       b |-> [bubbleB EXCEPT !.vx = @ + repulsionVx, !.vy = @ + repulsionVy]]

\* handleBubbleCollision without distance > 0
HandleBubbleCollisionUnguarded(bubbleA, bubbleB) ==
  LET dx == bubbleB.x - bubbleA.x
      dy == bubbleB.y - bubbleA.y
      d2 == dx * dx + dy * dy
      minDistance == bubbleA.radius + bubbleB.radius + PHYSICS_CONFIG.desiredSpacing * UNIT
  IN  IF d2 < minDistance * minDistance
      THEN Repelled(bubbleA, bubbleB, dx, dy, ISqrt(d2), minDistance)
      ELSE [a |-> bubbleA, b |-> bubbleB]

\* handleBubbleCollision: the two bubbles after the call
HandleBubbleCollision(bubbleA, bubbleB) ==
  LET dx == bubbleB.x - bubbleA.x
      dy == bubbleB.y - bubbleA.y
      d2 == dx * dx + dy * dy
      minDistance == bubbleA.radius + bubbleB.radius + PHYSICS_CONFIG.desiredSpacing * UNIT
  IN  IF d2 < minDistance * minDistance /\ d2 > 0
      THEN Repelled(bubbleA, bubbleB, dx, dy, ISqrt(d2), minDistance)
      ELSE [a |-> bubbleA, b |-> bubbleB]

\* the code unit of "-"
DASH == 45

\* the order Array.prototype.sort puts two strings in: by code units
RECURSIVE IdLess(_, _)
IdLess(a, b) ==
  IF Len(a) = 0 THEN Len(b) > 0
  ELSE IF Len(b) = 0 THEN FALSE
  ELSE IF Head(a) # Head(b) THEN Head(a) < Head(b)
  ELSE IdLess(Tail(a), Tail(b))

\* pairKey: [bubble.id, nearbyBubble.id].sort().join("-") in part_000, the
\* smaller and the larger of the coordinates in the other variant
PairKey(variant, bubble, nearbyBubble) ==
  IF variant = "part000"
  THEN IF IdLess(nearbyBubble.id, bubble.id)
       THEN nearbyBubble.id \o <<DASH>> \o bubble.id
       ELSE bubble.id \o <<DASH>> \o nearbyBubble.id
  ELSE <<Min(bubble.x, nearbyBubble.x), Min(bubble.y, nearbyBubble.y),
         Max(bubble.x, nearbyBubble.x), Max(bubble.y, nearbyBubble.y)>>

\* nearbyBubble.id !== bubble.id in part_000, nearbyBubble !== bubble in the
\* other variant; i and j are the references
IsOther(variant, bubbles, i, j) ==
  IF variant = "part000" THEN bubbles[j].id # bubbles[i].id ELSE j # i

\* a collision pass that looks no pair up
HasNever(processedPairs, pairKey) == FALSE

\* processedPairs.has(pairKey)
Has(processedPairs, pairKey) == pairKey \in processedPairs

\* the bubbles updatePhysics works on, by reference and in order: those of
\* alpha >= 1 in the variant that filters, all of them in part_000
VisibleBubbles(variant, bubbles) ==
  SelectSeq([i \in 1..Len(bubbles) |-> i],
            LAMBDA i : variant = "part000" \/ bubbles[i].alpha >= 1)

\* Math.max(...bubbles.map((b) => b.radius))
MaxRadius(bubbles) ==
  IF Len(bubbles) = 0 THEN NegInfinity
  ELSE LET radii == {bubbles[i].radius : i \in 1..Len(bubbles)}
       IN  CHOOSE r \in radii : \A o \in radii : o <= r

\* bubbles.forEach((bubble) => this.quadTree.insert(bubble)), the loop over
\* several bubbles taken as the loop over the first half of them followed by
\* the loop over the second half
RECURSIVE InsertAll(_, _, _, _)
InsertAll(variant, tree, order, bubbles) ==
  IF Len(order) = 0 THEN tree
  ELSE IF Len(order) = 1
    THEN Insert(variant, tree, << >>, Head(order), bubbles).tree
  ELSE LET half  == Len(order) \div 2
           first == InsertAll(variant, tree, SubSeq(order, 1, half), bubbles)
       IN  IF Known(first)
           THEN InsertAll(variant, first, SubSeq(order, half + 1, Len(order)), bubbles)
           ELSE first

\* the inner loop of the collision pass, over the bubbles found near bubble
\* i; over several, it is the loop over the first half of them followed by
\* the loop over the second half
RECURSIVE CollideWithNearby(_, _, _, _)
CollideWithNearby(variant, st, i, nearbyBubbles) ==
  IF Len(nearbyBubbles) = 0 THEN st
  ELSE IF Len(nearbyBubbles) > 1
    THEN LET half  == Len(nearbyBubbles) \div 2
             first == CollideWithNearby(variant, st, i, SubSeq(nearbyBubbles, 1, half))
         IN  IF Known(first)
             THEN CollideWithNearby(variant, first, i,
                                    SubSeq(nearbyBubbles, half + 1, Len(nearbyBubbles)))
             ELSE first
  ELSE
    LET j == Head(nearbyBubbles)
        pairKey == PairKey(variant, st.bubbles[i], st.bubbles[j])
        next ==
          IF IsOther(variant, st.bubbles, i, j) /\ ~Has(st.processedPairs, pairKey)
          THEN LET r == HandleBubbleCollision(st.bubbles[i], st.bubbles[j])
               IN  [st EXCEPT
                      !.bubbles = [st.bubbles EXCEPT ![i] = r.a, ![j] = r.b],
                      !.processedPairs = @ \cup {pairKey},
                      !.calls = Append(@, [a |-> i, b |-> j,
                                           before |-> <<st.bubbles[i], st.bubbles[j]>>,
                                           after |-> <<r.a, r.b>>])]
          ELSE st
    IN  next

\* the outer loop of the collision pass: a queryRange of three radii around
\* each bubble; over several bubbles, it is the loop over the first half of
\* them followed by the loop over the second half
RECURSIVE ProcessCollisions(_, _, _, _)
ProcessCollisions(variant, tree, st, order) ==
  IF Len(order) = 0 THEN st
  ELSE IF Len(order) > 1
    THEN LET half  == Len(order) \div 2
             first == ProcessCollisions(variant, tree, st, SubSeq(order, 1, half))
         IN  IF Known(first)
             THEN ProcessCollisions(variant, tree, first,
                                    SubSeq(order, half + 1, Len(order)))
             ELSE first
  ELSE
    LET i == Head(order)
        bubble == st.bubbles[i]
        searchRadius == bubble.radius * 3
        nearbyBubbles ==
          QueryRange(variant, tree, << >>,
                     Rect(bubble.x - searchRadius, bubble.y - searchRadius,
                          searchRadius * 2, searchRadius * 2),
                     st.bubbles)
        found == [st EXCEPT !.found = Append(@, [bubble |-> i, nearby |-> nearbyBubbles])]
    IN  CollideWithNearby(variant, found, i, nearbyBubbles)

\* PhysicsManager.updatePhysics: the manager and the bubbles after the step,
\* with the calls of handleBubbleCollision and the results of queryRange
UpdatePhysics(variant, pm, bubbles) ==
  LET order == VisibleBubbles(variant, bubbles)
      sized == IF variant = "part000"
               THEN [pm EXCEPT !.maxBubbleSize = MaxRadius(bubbles)]
               ELSE pm
      moved == IF Len(bubbles) = 0 THEN << >>
               ELSE [i \in 1..Len(bubbles) |->
                       IF \E k \in 1..Len(order) : order[k] = i
                       THEN UpdateBubblePhysics(variant, sized, bubbles[i])
                       ELSE bubbles[i]]
      tree == InsertAll(variant, Clear(sized.quadTree), order, moved)
      st == ProcessCollisions(variant, tree,
                              [bubbles |-> moved, processedPairs |-> {},
                               calls |-> << >>, found |-> << >>],
                              order)
  IN  [pm |-> [sized EXCEPT !.quadTree = tree], bubbles |-> st.bubbles,
       calls |-> st.calls, found |-> st.found]

(***************************************************************************)
(* The integrator under test: a PhysicsManager over one of a few canvases  *)
(* steps a batch of one to MaxBubbles bubbles, MaxTicks times. The batch   *)
(* is any choice of bubbles at rest around the centre (two of them may     *)
(* coincide), moving into the right wall or lying across the bottom left   *)
(* corner, of radii that fit the canvas and of radii that do not.          *)
(***************************************************************************)
Px(n) == n * UNIT

PhCanvases ==
  {[width |-> 800, height |-> 450, titleHeight |-> 60],
   [width |-> 320, height |-> 240, titleHeight |-> 60]}

PhRadii == {30, 204}

PhPlaces(c) ==
  LET cx == c.width \div 2
      cy == c.titleHeight + ((c.height - c.titleHeight) * 4) \div 10
  IN  {[x |-> Px(cx), y |-> Px(cy), vx |-> 0, vy |-> 0],
       [x |-> Px(cx + 5), y |-> Px(cy), vx |-> 0, vy |-> 0],
       [x |-> Px(c.width - 10), y |-> Px(cy), vx |-> Px(3), vy |-> 0],
       [x |-> Px(5), y |-> Px(c.height - 5), vx |-> -Px(2), vy |-> Px(2)]}

\* the id of the k-th bubble of a batch: "a", "b", ... in part_000, whose
\* initializeBubbles copies it from the data; the other variant sets none
BubbleId(variant, k) == IF variant = "part000" THEN <<96 + k>> ELSE None

Bubble(id, place, radius) ==
  [id |-> id, x |-> place.x, y |-> place.y, vx |-> place.vx, vy |-> place.vy,
   radius |-> radius, alpha |-> 1, data |-> None]

PhBatches(variant, c) ==
  UNION {{[k \in 1..n |-> Bubble(BubbleId(variant, k), f[k].place, Px(f[k].radius))] :
            f \in [1..n -> [place : PhPlaces(c), radius : PhRadii]]} :
         n \in 1..MaxBubbles}

PhInit ==
  /\ \E variant \in VARIANTS, c \in PhCanvases :
       /\ phVariant = variant
       /\ phPm = NewPhysicsManager(Px(c.width), Px(c.height), Px(c.titleHeight))
       /\ phBubbles \in PhBatches(variant, c)
  /\ phCalls = << >>
  /\ phFound = << >>
  /\ phTicks = 0
  /\ phLast = [arg |-> "none", out |-> << >>, emptied |-> FALSE]
  /\ phShadow = [pm |-> phPm, bubbles |-> phBubbles, calls |-> << >>]
  /\ PctParked /\ RadParked /\ QtParked /\ SsParked

\* one call of PhysicsManager.updatePhysics on the batch
Step ==
  LET r == UpdatePhysics(phVariant, phPm, phBubbles)
  IN  /\ phPm' = r.pm
      /\ phBubbles' = r.bubbles
      /\ phCalls' = r.calls
      /\ phFound' = r.found
      /\ phTicks' = phTicks + 1
      /\ UNCHANGED <<phVariant, pctVars, radVars, qtVars, ssVars>>

\* updatePhysics on the batch; the shadow run makes the same step from its own
\* manager and batch.
PhUpdatePhysics ==
  /\ phTicks < MaxTicks
  /\ Step
  /\ phLast' = [arg |-> "batch", out |-> phBubbles', emptied |-> phLast.arg = "empty"]
  /\ LET r == UpdatePhysics(phVariant, phShadow.pm, phShadow.bubbles)
     IN  phShadow' = [pm |-> r.pm, bubbles |-> r.bubbles, calls |-> r.calls]

\* updatePhysics([]) on the same manager, between two frames of the batch: the
\* caller's batch is not the argument and stays as it is.
PhUpdatePhysicsEmpty ==
  LET r == UpdatePhysics(phVariant, phPm, << >>)
  IN  /\ phPm' = r.pm
      /\ phCalls' = r.calls
      /\ phFound' = r.found
      /\ phLast' = [arg |-> "empty", out |-> r.bubbles, emptied |-> TRUE]
      /\ UNCHANGED <<phVariant, phBubbles, phTicks, phShadow,
                     pctVars, radVars, qtVars, ssVars>>

PhNext == PhUpdatePhysics \/ PhUpdatePhysicsEmpty

SpecPhys == PhInit /\ [][PhNext]_vars

(***************************************************************************)
(* The integrator of src/unnamed/part_000 on a crowd: a canvas of 800 x    *)
(* 450 with a title of 60, bubbles of the smallest radius radiusFromTotal  *)
(* gives for that width, all at rest. The batch is none, one or CrowdSize  *)
(* bubbles on a grid over the canvas, followed by a pair of bubbles near   *)
(* the middle of the tree's region; with CrowdSize = DEFAULT_CAPACITY the  *)
(* root of the tree is full when the pair is inserted.                     *)
(***************************************************************************)
CrowdSize == 100

MaxCrowdTicks == 2

CROWD_CANVAS == [width |-> 800, height |-> 450, titleHeight |-> 60]

CrowdRadius == RadiusFromTotal("part000", 0, CROWD_CANVAS.width)

\* the k-th bubble of the grid: 13 to a row, 60 px apart, rows 45 px apart
CrowdPlace(k) ==
  [x |-> Px(30 + 60 * ((k - 1) % 13)), y |-> Px(90 + 45 * ((k - 1) \div 13)),
   vx |-> 0, vy |-> 0]

\* the places of the pair: the first below the middle of the region and left
\* of it, the second further left and higher, by a few steps either way
CrowdPairs ==
  LET midX == Px(CROWD_CANVAS.width) \div 2
      midY == Px(CROWD_CANVAS.titleHeight)
                + Px(CROWD_CANVAS.height - CROWD_CANVAS.titleHeight) \div 2
      r    == CrowdRadius
  IN  {<<[x |-> midX - r + i, y |-> midY + 3 * r + j, vx |-> 0, vy |-> 0],
         [x |-> midX - 3 * r - k, y |-> midY + r - l, vx |-> 0, vy |-> 0]>> :
         i \in {0, Px(2)}, j \in {1, -Px(2)}, k \in {1, -Px(2)}, l \in {1, Px(2)}}

CrowdBatches ==
  {[k \in 1..(n + 2) |->
      Bubble(BubbleId("part000", k),
             IF k <= n THEN CrowdPlace(k) ELSE pair[k - n], CrowdRadius)] :
     n \in {0, 1, CrowdSize}, pair \in CrowdPairs}

CrowdInit ==
  /\ phVariant = "part000"
  /\ phPm = NewPhysicsManager(Px(CROWD_CANVAS.width), Px(CROWD_CANVAS.height),
                              Px(CROWD_CANVAS.titleHeight))
  /\ phBubbles \in CrowdBatches
  /\ phCalls = << >>
  /\ phFound = << >>
  /\ phTicks = 0
  /\ phLast = None /\ phShadow = None
  /\ PctParked /\ RadParked /\ QtParked /\ SsParked

CrowdUpdatePhysics == phTicks < MaxCrowdTicks /\ Step /\ UNCHANGED <<phLast, phShadow>>

CrowdNext == CrowdUpdatePhysics

SpecCrowd == CrowdInit /\ [][CrowdNext]_vars

(***************************************************************************)
(* The collision pass of src/src/composables/usePixiBubbleChart.ts on      *)
(* batches of three to MaxPairBubbles bubbles of radius 30, at rest on the *)
(* corners of a rectangle of 20 x 20 around the focal point of a canvas of *)
(* 800 x 450; several bubbles may lie on one corner.                       *)
(***************************************************************************)
MaxPairBubbles == 4

MaxPairTicks == 2

PAIR_CANVAS == [width |-> 800, height |-> 450, titleHeight |-> 60]

PairPlaces ==
  LET cx == PAIR_CANVAS.width \div 2
      cy == PAIR_CANVAS.titleHeight
              + ((PAIR_CANVAS.height - PAIR_CANVAS.titleHeight) * 4) \div 10
  IN  {[x |-> Px(cx + dx), y |-> Px(cy + dy), vx |-> 0, vy |-> 0] :
         dx \in {0, 20}, dy \in {0, 20}}

PairBatches ==
  UNION {{[k \in 1..n |-> Bubble(None, f[k], Px(30))] : f \in [1..n -> PairPlaces]} :
         n \in 3..MaxPairBubbles}

PairInit ==
  /\ phVariant = "ts"
  /\ phPm = NewPhysicsManager(Px(PAIR_CANVAS.width), Px(PAIR_CANVAS.height),
                              Px(PAIR_CANVAS.titleHeight))
  /\ phBubbles \in PairBatches
  /\ phCalls = << >>
  /\ phFound = << >>
  /\ phTicks = 0
  /\ phLast = None /\ phShadow = None
  /\ PctParked /\ RadParked /\ QtParked /\ SsParked

PairUpdatePhysics == phTicks < MaxPairTicks /\ Step /\ UNCHANGED <<phLast, phShadow>>

PairNext == PairUpdatePhysics

SpecPairs == PairInit /\ [][PairNext]_vars

(***************************************************************************)
(* The scenario: magnitudes 100 and 400 sized by radiusFromTotal for a     *)
(* canvas 800 wide, spawned at rest 5 px apart around the centre of a      *)
(* canvas of 800 x 450 with a title of 60, run for 500 steps.              *)
(***************************************************************************)
SCENARIO ==
  [magnitudes |-> <<400, 100>>, width |-> 800, height |-> 450, titleHeight |-> 60,
   ticks |-> 500]

\* the second bubble's place from the first, 5 px away
ScOffsets == {<<5, 0>>, <<-5, 0>>, <<0, 5>>, <<0, -5>>, <<3, 4>>, <<-4, -3>>}

ScInit ==
  /\ \E variant \in VARIANTS, d \in ScOffsets :
       LET pm == NewPhysicsManager(Px(SCENARIO.width), Px(SCENARIO.height),
                                   Px(SCENARIO.titleHeight))
           at(k) == [x |-> pm.centerX + (IF k = 1 THEN 0 ELSE Px(d[1])),
                     y |-> pm.centerY + (IF k = 1 THEN 0 ELSE Px(d[2])),
                     vx |-> 0, vy |-> 0]
       IN  /\ phVariant = variant
           /\ phPm = pm
           /\ phBubbles =
                [k \in 1..2 |->
                   Bubble(BubbleId(variant, k), at(k),
                          RadiusFromTotal(variant, SCENARIO.magnitudes[k], SCENARIO.width))]
  /\ phCalls = << >>
  /\ phFound = << >>
  /\ phTicks = 0
  /\ phLast = None /\ phShadow = None
  /\ PctParked /\ RadParked /\ QtParked /\ SsParked

ScUpdatePhysics == phTicks < SCENARIO.ticks /\ Step /\ UNCHANGED <<phLast, phShadow>>

ScNext == ScUpdatePhysics

SpecScenario == ScInit /\ [][ScNext]_vars

(***************************************************************************)
(* The session (usePixiBubbleChart). Canvas sizes are in fixed point like  *)
(* the coordinates. What Math.random() returns, and the number of lines    *)
(* PIXI lays the title out in, are choices made at each initializeBubbles. *)
(***************************************************************************)
\* TITLE_HEIGHT of the variant that has one
TITLE_HEIGHT == 60

\* RESPONSIVE_CONFIG.titleSize
TITLE_SIZE_BREAKPOINTS == <<480, 640, 768, 1024, 1280>>
TITLE_SIZE_VALUES == <<16, 20, 24, 28, 32, 36>>

\* getResponsiveTitleSize: getResponsiveValue on RESPONSIVE_CONFIG.titleSize
\* in part_000, a chain of tests in the other variant
GetResponsiveTitleSize(variant, canvasWidth) ==
  IF variant = "part000"
  THEN LET below == {i \in 1..Len(TITLE_SIZE_BREAKPOINTS) :
                       canvasWidth < TITLE_SIZE_BREAKPOINTS[i]}
       IN  IF below = {} THEN TITLE_SIZE_VALUES[Len(TITLE_SIZE_VALUES)]
           ELSE TITLE_SIZE_VALUES[CHOOSE i \in below : \A j \in below : i <= j]
  ELSE IF canvasWidth < 640 THEN 18
  ELSE IF canvasWidth < 768 THEN 20
  ELSE IF canvasWidth < 1024 THEN 24
  ELSE IF canvasWidth < 1280 THEN 30
  ELSE 36

\* getTitlePosition: canvasHeight * 0.05 in part_000, 16 or 24 in the other
GetTitlePosition(variant, canvasHeight) ==
  IF variant = "part000" THEN Trunc(canvasHeight * 5, 100)
  ELSE IF canvasHeight < 400 * UNIT THEN Px(16) ELSE Px(24)

\* the size resizeCanvas gives the renderer: the parent's size in part_000
\* and below an innerWidth of 768, the largest 16:9 box in the parent
\* otherwise
ResizedTo(variant, parent) ==
  IF variant = "part000" \/ parent.innerWidth < 768
  THEN [width |-> Px(parent.clientWidth), height |-> Px(parent.clientHeight)]
  ELSE IF parent.clientWidth * 9 > parent.clientHeight * 16
  THEN [width |-> Trunc(Px(parent.clientHeight) * 16, 9),
        height |-> Px(parent.clientHeight)]
  ELSE [width |-> Px(parent.clientWidth),
        height |-> Trunc(Px(parent.clientWidth) * 9, 16)]

\* data.value.sort((a, b) => b.total - a.total): a stable insertion
RECURSIVE InsertByTotal(_, _)
InsertByTotal(sorted, d) ==
  IF Len(sorted) = 0 THEN <<d>>
  ELSE IF Head(sorted).total >= d.total
  THEN <<Head(sorted)>> \o InsertByTotal(Tail(sorted), d)
  ELSE <<d>> \o sorted

RECURSIVE SortByTotal(_)
SortByTotal(data) ==
  IF Len(data) = 0 THEN << >>
  ELSE InsertByTotal(SortByTotal(SubSeq(data, 1, Len(data) - 1)), data[Len(data)])

\* the largest of a sequence of numbers, Math.max(...[]) being -Infinity
RECURSIVE MaxOf(_)
MaxOf(s) == IF Len(s) = 0 THEN NegInfinity ELSE Max(Head(s), MaxOf(Tail(s)))

\* initializeBubbles on a renderer of the given size: the title text, the
\* data as the call leaves it and the new bubbleContainers. draw gives the
\* lines of the title and, for the k-th bubble, five times the cosine and
\* sine of its angle, twice the Math.random() of its distance and its
\* velocity
InitializeBubbles(variant, renderer, data, draw) ==
  LET canvasWidth == renderer.width
      canvasHeight == renderer.height
      centerX == Trunc(canvasWidth, 2)
      titleFontSize == GetResponsiveTitleSize(variant, canvasWidth \div UNIT)
      titlePosition == GetTitlePosition(variant, canvasHeight)
      titleText == [height |-> Px(titleFontSize) * draw.lines, y |-> titlePosition]
      bubblesStartY == IF variant = "part000"
                       THEN titlePosition + titleText.height + Px(20)
                       ELSE Px(TITLE_HEIGHT)
      centerY == bubblesStartY + Trunc((canvasHeight - bubblesStartY) * 4, 10)
      spawnRadius == Min(Trunc(canvasWidth, 3),
                         Trunc((canvasHeight - bubblesStartY) * 4, 10))
      sorted == IF variant = "part000" THEN SortByTotal(data) ELSE data
      radius(k) == RadiusFromTotal(variant, sorted[k].total, canvasWidth \div UNIT)
      maxRadius == MaxOf(IF Len(sorted) = 0 THEN << >>
                         ELSE [k \in 1..Len(sorted) |-> radius(k)])
      isLargeBubble(k) ==
        radius(k) * 10 >= PHYSICS_CONFIG.largeBubbleThreshold10 * maxRadius
      minDistance == Trunc(Px(PHYSICS_CONFIG.centerZoneRadius) * 8, 10)
      distance(k) ==
        IF variant # "part000" THEN Trunc(draw.random2[k] * spawnRadius, 2)
        ELSE IF isLargeBubble(k)
        THEN Trunc(draw.random2[k] * Trunc(Px(PHYSICS_CONFIG.centerZoneRadius) * 3, 10), 2)
        ELSE minDistance + Trunc(draw.random2[k] * (spawnRadius - minDistance), 2)
      container(k) ==
        [id |-> IF variant = "part000" THEN sorted[k].id ELSE None,
         x |-> centerX + Trunc(distance(k) * draw.angle5[k][1], 5),
         y |-> centerY + Trunc(distance(k) * draw.angle5[k][2], 5),
         vx |-> draw.velocity[k][1], vy |-> draw.velocity[k][2],
         radius |-> radius(k), alpha |-> 1, data |-> sorted[k]]
  IN  [title |-> titleText, data |-> sorted,
       bubbles |-> IF Len(sorted) = 0 THEN << >>
                   ELSE [k \in 1..Len(sorted) |-> container(k)]]

(***************************************************************************)
(* The session under test: a component is mounted in a parent of one of a  *)
(* few sizes with one of a few data arrays; the window is resized, frames  *)
(* and ticks come in any order, the pointer enters and leaves bubbles, the *)
(* owner calls reinitialize, and the component is unmounted.               *)
(***************************************************************************)
\* clientWidth and clientHeight of pixiContainerRef, and window.innerWidth
SsParents ==
  {[clientWidth |-> 800, clientHeight |-> 450, innerWidth |-> 1024],
   [clientWidth |-> 320, clientHeight |-> 240, innerWidth |-> 360],
   [clientWidth |-> 1200, clientHeight |-> 800, innerWidth |-> 1600]}

SsDataSets ==
  {<< >>,
   <<[id |-> <<97>>, total |-> 100]>>,
   <<[id |-> <<97>>, total |-> 100], [id |-> <<98>>, total |-> 400]>>}

\* what one initializeBubbles draws
SsDraws ==
  {[lines |-> 1, angle5 |-> <<<<5, 0>>, <<-5, 0>>>>, random2 |-> <<0, 0>>,
    velocity |-> <<<<0, 0>>, <<0, 0>>>>],
   [lines |-> 2, angle5 |-> <<<<0, 5>>, <<3, 4>>>>, random2 |-> <<1, 1>>,
    velocity |-> <<<<-(UNIT \div 20), 0>>, <<0, -(UNIT \div 20)>>>>]}

\* the size pixiApp.init gives the renderer
InitialRenderer == [width |-> Px(800), height |-> Px(450)]

SsInit ==
  /\ phVariant \in VARIANTS
  /\ phPm = None
  /\ phBubbles = << >>
  /\ phCalls = << >>
  /\ phFound = << >>
  /\ phTicks = 0
  /\ phLast = None /\ phShadow = None
  /\ ssPhase = "created"
  /\ ssApp = None
  /\ ssParent \in SsParents
  /\ ssData \in SsDataSets
  /\ ssFrames = 0
  /\ ssListening = FALSE
  /\ ssTicking = FALSE
  /\ ssLast = [canvasWidth |-> 0, canvasHeight |-> 0, titleHeight |-> 0]
  /\ ssTitle = None
  /\ ssActive = None
  /\ ssTooltip = [visible |-> FALSE, x |-> 0, y |-> 0, data |-> None]
  /\ ssSpawned = None
  /\ ssStale = FALSE
  /\ ssEvents = 0
  /\ PctParked /\ RadParked /\ QtParked

\* an initializeBubbles that would add its batch to the bubbles it finds
\* (no bubbleContainers.value = [] at its head)
RespawnKeepsOld(renderer, draw) ==
  LET r == InitializeBubbles(phVariant, renderer, ssData, draw)
  IN  /\ phBubbles' = phBubbles \o r.bubbles
      /\ ssData' = r.data
      /\ ssTitle' = IF phVariant = "part000" THEN Some(r.title) ELSE ssTitle
      /\ ssActive' = IF ssActive = None THEN None
                     ELSE Some([ssActive[1] EXCEPT !.current = FALSE])
      /\ ssSpawned' = Some(renderer)

\* the effect of initializeBubbles on a pixiApp whose renderer has the given
\* size; the bubble the pointer is over, if any, is left out of the batch
Respawn(renderer, draw) ==
  LET r == InitializeBubbles(phVariant, renderer, ssData, draw)
  IN  /\ phBubbles' = r.bubbles
      /\ ssData' = r.data
      /\ ssTitle' = IF phVariant = "part000" THEN Some(r.title) ELSE ssTitle
      /\ ssActive' = IF ssActive = None THEN None
                     ELSE Some([ssActive[1] EXCEPT !.current = FALSE])
      /\ ssSpawned' = Some(renderer)

\* initializePixi up to its await: part_000 tests !pixiApp, the other
\* variant does not
SsInitializePixi ==
  /\ ssPhase = "created"
  /\ ssPhase' = "awaiting"
  /\ ssApp' = Some(InitialRenderer)
  /\ UNCHANGED <<phVars, ssParent, ssData, ssFrames, ssListening, ssTicking, ssLast,
                 ssTitle, ssActive, ssTooltip, ssSpawned, ssStale, ssEvents,
                 pctVars, radVars, qtVars>>

\* initializePixi from its await on: resizeCanvas(), the resize listener,
\* initializeBubbles() and the ticker
SsInitialized(draw) ==
  /\ ssPhase = "awaiting"
  /\ LET renderer == ResizedTo(phVariant, ssParent)
     IN  /\ ssApp' = Some(renderer)
         /\ Respawn(renderer, draw)
  /\ ssFrames' = ssFrames + 1
  /\ ssListening' = TRUE
  /\ ssTicking' = TRUE
  /\ ssPhase' = "mounted"
  /\ UNCHANGED <<phVariant, phPm, phCalls, phFound, phTicks, phLast, phShadow,
                 ssParent, ssLast,
                 ssTooltip, ssStale, ssEvents, pctVars, radVars, qtVars>>

\* a resize of the window, which leaves the parent some size: resizeCanvas
SsResize(parent) ==
  /\ ssListening
  /\ ssEvents < MaxEvents
  /\ ssEvents' = ssEvents + 1
  /\ ssParent' = parent
  /\ IF ssApp = None
     THEN UNCHANGED <<ssApp, ssFrames>>
     ELSE /\ ssApp' = Some(ResizedTo(phVariant, parent))
          /\ ssFrames' = ssFrames + 1
  /\ UNCHANGED <<phVars, ssPhase, ssData, ssListening, ssTicking, ssLast, ssTitle,
                 ssActive, ssTooltip, ssSpawned, ssStale, pctVars, radVars, qtVars>>

\* a callback resizeCanvas gave requestAnimationFrame: initializeBubbles
SsAnimationFrame(draw) ==
  /\ ssFrames > 0
  /\ ssFrames' = ssFrames - 1
  /\ IF ssApp = None
     THEN UNCHANGED <<phBubbles, ssData, ssTitle, ssActive, ssSpawned>>
     ELSE Respawn(ssApp[1], draw)
  /\ UNCHANGED <<phVariant, phPm, phCalls, phFound, phTicks, phLast, phShadow,
                 ssPhase, ssApp, ssParent,
                 ssListening, ssTicking, ssLast, ssTooltip, ssStale, ssEvents,
                 pctVars, radVars, qtVars>>

\* reinitialize, which the component exposes; the owner calls it on a
\* component that has finished mounting
SsReinitialize(draw) ==
  /\ ssPhase \in {"mounted", "unmounted"}
  /\ ssEvents < MaxEvents
  /\ ssEvents' = ssEvents + 1
  /\ IF ssApp = None
     THEN UNCHANGED <<phBubbles, ssData, ssTitle, ssActive, ssSpawned>>
     ELSE Respawn(ssApp[1], draw)
  /\ UNCHANGED <<phVariant, phPm, phCalls, phFound, phTicks, phLast, phShadow,
                 ssPhase, ssApp, ssParent,
                 ssFrames, ssListening, ssTicking, ssLast, ssTooltip, ssStale,
                 pctVars, radVars, qtVars>>

\* the title height updatePhysics gives the PhysicsManager
ActualTitleHeight(variant, renderer, title) ==
  IF variant # "part000" THEN Px(TITLE_HEIGHT)
  ELSE IF title # None THEN title[1].height + title[1].y
  ELSE GetTitlePosition(variant, renderer.height) * 2

\* the tooltip updatePhysics leaves: at the active bubble (10 higher in
\* part_000), or hidden where it was; getBoundingClientRect() is at (0, 0)
TooltipAfter(variant, tooltip, active) ==
  IF active = None THEN [tooltip EXCEPT !.visible = FALSE]
  ELSE LET b == active[1].bubble
       IN  [visible |-> TRUE, x |-> b.x,
            y |-> b.y - b.radius - (IF variant = "part000" THEN Px(10) ELSE 0),
            data |-> b.data]

\* what updatePhysics compares with lastCanvasWidth, lastCanvasHeight and, in
\* part_000, lastTitleHeight (the other variant has no lastTitleHeight)
CanvasNow(variant, renderer, title, last) ==
  [canvasWidth |-> renderer.width, canvasHeight |-> renderer.height,
   titleHeight |-> IF variant = "part000"
                   THEN ActualTitleHeight(variant, renderer, title)
                   ELSE last.titleHeight]

\* a test that renews the manager only when there is none
NeedsNewManagerOnce(pm, last, now) == pm = None

\* !physicsManagerCache || lastCanvasWidth !== canvasWidth || ...
NeedsNewManager(pm, last, now) == pm = None \/ last # now

\* a tick of the ticker: the session's updatePhysics
SsUpdatePhysics ==
  /\ ssTicking
  /\ phTicks < MaxSessionTicks
  /\ IF ssApp = None
     THEN UNCHANGED <<phPm, phBubbles, phCalls, phFound, ssLast, ssActive, ssTooltip,
                      ssStale>>
     ELSE
       LET renderer == ssApp[1]
           actualTitleHeight == ActualTitleHeight(phVariant, renderer, ssTitle)
           now == CanvasNow(phVariant, renderer, ssTitle, ssLast)
           fresh == NeedsNewManager(phPm, ssLast, now)
           physicsManagerCache ==
             IF fresh
             THEN NewPhysicsManager(renderer.width, renderer.height, actualTitleHeight)
             ELSE phPm
           r == UpdatePhysics(phVariant, physicsManagerCache, phBubbles)
           active == IF ssActive # None /\ ssActive[1].current
                     THEN Some([ssActive[1] EXCEPT !.bubble = r.bubbles[ssActive[1].index]])
                     ELSE ssActive
       IN  /\ phPm' = r.pm
           /\ phBubbles' = r.bubbles
           /\ phCalls' = r.calls
           /\ phFound' = r.found
           /\ ssLast' = IF fresh THEN now ELSE ssLast
           /\ ssActive' = active
           /\ ssTooltip' = TooltipAfter(phVariant, ssTooltip, active)
           /\ ssStale' = (ssStale \/ (Len(phBubbles) > 0 /\ ssSpawned # Some(renderer)))
  /\ phTicks' = phTicks + 1
  /\ UNCHANGED <<phVariant, phLast, phShadow,
                 ssPhase, ssApp, ssParent, ssData, ssFrames, ssListening,
                 ssTicking, ssTitle, ssSpawned, ssEvents, pctVars, radVars, qtVars>>

\* pointerover on a container of the stage: onPointerOver
SsPointerOver(i) ==
  /\ ssApp # None
  /\ i \in 1..Len(phBubbles)
  /\ ssEvents < MaxEvents
  /\ ssEvents' = ssEvents + 1
  /\ ssActive' = Some([current |-> TRUE, index |-> i, bubble |-> phBubbles[i]])
  /\ UNCHANGED <<phVars, ssPhase, ssApp, ssParent, ssData, ssFrames, ssListening,
                 ssTicking, ssLast, ssTitle, ssTooltip, ssSpawned, ssStale,
                 pctVars, radVars, qtVars>>

\* pointerout on the container of the stage the pointer was over:
\* onPointerOut
SsPointerOut ==
  /\ ssApp # None
  /\ ssActive # None
  /\ ssActive[1].current
  /\ ssEvents < MaxEvents
  /\ ssEvents' = ssEvents + 1
  /\ ssActive' = None
  /\ UNCHANGED <<phVars, ssPhase, ssApp, ssParent, ssData, ssFrames, ssListening,
                 ssTicking, ssLast, ssTitle, ssTooltip, ssSpawned, ssStale,
                 pctVars, radVars, qtVars>>

\* destroyPixi, on unmount; what is left of an initializePixi at its await
\* then throws at its first statement. currentTitleText is of part_000
SsDestroyPixi ==
  /\ ssPhase \in {"awaiting", "mounted"}
  /\ ssPhase' = "unmounted"
  /\ ssListening' = FALSE
  /\ ssTicking' = FALSE
  /\ ssApp' = None
  /\ ssTitle' = None
  /\ phBubbles' = << >>
  /\ ssActive' = IF ssActive = None THEN None
                 ELSE Some([ssActive[1] EXCEPT !.current = FALSE])
  /\ UNCHANGED <<phVariant, phPm, phCalls, phFound, phTicks, phLast, phShadow,
                 ssParent, ssData,
                 ssFrames, ssLast, ssTooltip, ssSpawned, ssStale, ssEvents,
                 pctVars, radVars, qtVars>>

SsNext ==
  \/ SsInitializePixi
  \/ \E draw \in SsDraws : SsInitialized(draw)
  \/ \E parent \in SsParents : SsResize(parent)
  \/ \E draw \in SsDraws : SsAnimationFrame(draw)
  \/ \E draw \in SsDraws : SsReinitialize(draw)
  \/ SsUpdatePhysics
  \/ \E i \in 1..MaxBubbles : SsPointerOver(i)
  \/ SsPointerOut
  \/ SsDestroyPixi

SpecSession == SsInit /\ [][SsNext]_vars


(***************************************************************************)
(* Properties of the integrator.                                           *)
(***************************************************************************)
\* the circle of b lies within [0, canvasWidth] x [topBoundary, canvasHeight]
InsideCanvas(pm, b) ==
  /\ b.x - b.radius >= 0
  /\ b.x + b.radius <= pm.canvasWidth
  /\ b.y - b.radius >= pm.topBoundary
  /\ b.y + b.radius <= pm.canvasHeight

\* the canvas is wide and high enough for the circle of b
FitsCanvas(pm, b) ==
  /\ 2 * b.radius <= pm.canvasWidth
  /\ 2 * b.radius <= pm.canvasHeight - pm.topBoundary

CallsOnPair(i, j) ==
  {k \in 1..Len(phCalls) : {phCalls[k].a, phCalls[k].b} = {i, j}}

\* the last step's queryRange around bubble i returned bubble j
FoundNear(i, j) ==
  \E k \in 1..Len(phFound) :
    /\ phFound[k].bubble = i
    /\ \E m \in 1..Len(phFound[k].nearby) : phFound[k].nearby[m] = j

\* C5: within one updatePhysics step handleBubbleCollision is called at
\* most once on any unordered pair of bubbles, also when each of the two
\* finds the other in its own queryRange.
C5_RepulsionOncePerPair ==
  \A i, j \in 1..Len(phBubbles) : Cardinality(CallsOnPair(i, j)) <= 1

\* a step in which each of two bubbles found the other and the pair got
\* its one call
C5_Witness ==
  \E i, j \in 1..Len(phBubbles) :
    /\ i # j
    /\ FoundNear(i, j)
    /\ FoundNear(j, i)
    /\ Cardinality(CallsOnPair(i, j)) = 1

\* the two bubbles of a call had the same centre
SameCentre(call) ==
  /\ call.before[1].x = call.before[2].x
  /\ call.before[1].y = call.before[2].y

\* C10: a call of handleBubbleCollision on two distinct bubbles of
\* identical centre coordinates leaves both bubbles, their velocities
\* included, as they were.
C10_ZeroDistanceGuard ==
  \A k \in 1..Len(phCalls) :
    SameCentre(phCalls[k]) => phCalls[k].after = phCalls[k].before

\* a call on two distinct bubbles of identical centre
C10_Witness ==
  \E k \in 1..Len(phCalls) :
    /\ phCalls[k].a # phCalls[k].b
    /\ SameCentre(phCalls[k])
    /\ phCalls[k].after = phCalls[k].before

\* the squared distance between the centres of two bubbles
Distance2(a, b) == (b.x - a.x) * (b.x - a.x) + (b.y - a.y) * (b.y - a.y)

\* C9: in the scenario, after 500 updatePhysics steps both circles lie
\* within [0, 800] x [60, 450] and the distance between the centres is at
\* least the sum of the radii.
C9_ScenarioSeparatedInBounds ==
  phTicks = SCENARIO.ticks =>
    /\ \A i \in 1..2 : InsideCanvas(phPm, phBubbles[i])
    /\ Distance2(phBubbles[1], phBubbles[2])
         >= (phBubbles[1].radius + phBubbles[2].radius)
              * (phBubbles[1].radius + phBubbles[2].radius)

(***************************************************************************)
(* Properties of the session.                                              *)
(***************************************************************************)
\* C6: after resizeCanvas has changed the renderer size, no updatePhysics
\* runs on the bubbles spawned for the size before: the initializeBubbles
\* the resize scheduled comes first, in every order of the ticker and the
\* animation frame.
C6_ResizeIsBarrier == ~ssStale

\* C11: updatePhysics on an empty array leaves the array empty, makes no
\* repulsion call and leaves the quadtree with its bare root; the batch then
\* evolves, and every later step on it makes the same calls and leaves the
\* same manager, as in a run that never made the empty steps.
C11_EmptyBatchIsNoOp ==
  /\ phLast.arg = "empty" =>
       /\ phLast.out = << >>
       /\ phCalls = << >>
       /\ phFound = << >>
       /\ DOMAIN phPm.quadTree.nodes = {<< >>}
       /\ phPm.quadTree.nodes[<< >>] = EmptyNode
  /\ phBubbles = phShadow.bubbles
  /\ phLast.arg = "batch" =>
       /\ phCalls = phShadow.calls
       /\ phPm = phShadow.pm

\* a step on the batch that applied a repulsion, right after an empty step
C11_Witness ==
  /\ phLast.arg = "batch"
  /\ phLast.emptied
  /\ phCalls # << >>
  /\ phTicks > 1
  /\ Len(phBubbles) > 1

\* C12: for every input with total > 0, whether or not its counts sum to the
\* total, the three values calculatePercentages returns sum to exactly 100.
C12_FallbackSumsTo100 ==
  pctRun # None =>
    LET r == pctRun[1].result
    IN  /\ r.positivo.hi + r.neutro.hi + r.negativo.hi = 0
        /\ r.positivo.lo + r.neutro.lo + r.negativo.lo = 100

\* the same on the inputs whose counts are below 2^31
C12_FallbackSumsTo100Small ==
  (pctRun # None /\ pctData[1].scale = 0) => C12_FallbackSumsTo100

\* an inconsistent input on which the last branch added a residual
C12_Witness ==
  /\ pctRun # None
  /\ pctData[1].scale = 0
  /\ pctData[1].positivo + pctData[1].neutro + pctData[1].negativo # pctData[1].total
  /\ pctRun[1].fallback

\* the node of the tree an insert of bubble comes to through the children
\* that exist: from the node at path (whose region contains it) into the first
\* child whose region contains it, as long as there is one
RECURSIVE Reached(_, _, _, _)
Reached(variant, tree, path, bubble) ==
  IF ~tree.nodes[path].divided THEN path
  ELSE LET into == {q \in 1..4 :
                      Contains(variant,
                               BoundaryOf(tree.boundary, Append(path, QUADRANTS[q])),
                               bubble)}
       IN  IF into = {} THEN path
           ELSE Reached(variant, tree,
                        Append(path, QUADRANTS[CHOOSE q \in into : \A o \in into : q <= o]),
                        bubble)

\* no node lies deeper than maxDepth and none at maxDepth is divided
DepthCapped(tree) ==
  \A p \in DOMAIN tree.nodes :
    /\ Len(p) <= tree.maxDepth
    /\ Len(p) = tree.maxDepth => ~tree.nodes[p].divided

\* an insert that comes to a full node at depth maxDepth appends the bubble to
\* that node and changes nothing else of the tree
StoredAtCap ==
  (Len(qtBubbles') = Len(qtBubbles) + 1) =>
    LET n == Len(qtBubbles')
        c == qtBubbles'[n]
        p == Reached(qtVariant, qtTree, << >>, c)
    IN  (/\ Contains(qtVariant, qtTree.boundary, c)
         /\ Len(p) = qtTree.maxDepth
         /\ Len(qtTree.nodes[p].bubbles) >= qtTree.capacity)
        => qtTree' = [qtTree EXCEPT !.nodes[p].bubbles = Append(@, n)]

\* C13: after any sequence of inserts and clears no node exists at a depth
\* greater than maxDepth, and an insert that reaches a full node at depth
\* maxDepth stores the bubble in that node without subdividing it.
C13_DepthCap == [](qtTree # None => DepthCapped(qtTree)) /\ [][StoredAtCap]_vars

\* a node at depth maxDepth > 0 that holds more bubbles than the capacity
C13_Witness ==
  /\ qtTree.maxDepth > 0
  /\ \E p \in DOMAIN qtTree.nodes :
       /\ Len(p) = qtTree.maxDepth
       /\ Len(qtTree.nodes[p].bubbles) > qtTree.capacity

\* the four equal quadrants of a region, as rectangles over the denominator
\* 2 * den
QuadrantsOf(b) ==
  {[x |-> 2 * b.x + dx * b.width, y |-> 2 * b.y + dy * b.height,
    width |-> b.width, height |-> b.height, den |-> 2 * b.den] :
     dx \in {0, 1}, dy \in {0, 1}}

\* the node at path has four children, one on each quadrant of its region
HasFourQuadrants(tree, path) ==
  LET kids == {c \in DOMAIN tree.nodes :
                 Len(c) = Len(path) + 1 /\ SubSeq(c, 1, Len(path)) = path}
  IN  /\ tree.nodes[path].divided
      /\ Cardinality(kids) = 4
      /\ {BoundaryOf(tree.boundary, c) : c \in kids}
           = QuadrantsOf(BoundaryOf(tree.boundary, path))

\* C14, as claimed: every node holds at most capacity bubbles directly or has
\* exactly four children on the four equal quadrants of its region.
C14_NodeInvariant ==
  qtTree # None =>
    \A p \in DOMAIN qtTree.nodes :
      \/ Len(qtTree.nodes[p].bubbles) <= qtTree.capacity
      \/ HasFourQuadrants(qtTree, p)

\* C14, as the code has it: every node above depth maxDepth holds at most
\* capacity bubbles directly or has exactly four children on the four equal
\* quadrants of its region; every divided node has these four children and
\* an undivided one has none. A node at depth maxDepth holds any number.
C14_NodeInvariantAboveCap ==
  qtTree # None =>
    \A p \in DOMAIN qtTree.nodes :
      /\ Len(p) < qtTree.maxDepth =>
           \/ Len(qtTree.nodes[p].bubbles) <= qtTree.capacity
           \/ HasFourQuadrants(qtTree, p)
      /\ qtTree.nodes[p].divided => HasFourQuadrants(qtTree, p)
      /\ ~qtTree.nodes[p].divided =>
           \A q \in 1..4 : Append(p, QUADRANTS[q]) \notin DOMAIN qtTree.nodes

\* a divided node below the root, and a node that holds exactly capacity
C14_Witness ==
  /\ \E p \in DOMAIN qtTree.nodes : Len(p) > 0 /\ HasFourQuadrants(qtTree, p)
  /\ \E p \in DOMAIN qtTree.nodes :
       /\ ~qtTree.nodes[p].divided
       /\ Len(qtTree.nodes[p].bubbles) = qtTree.capacity

\* bubbles i and j are closer than the minimum distance and not at the same
\* centre, at the positions the collision pass saw (it moves no bubble)
Interacting(i, j) ==
  LET d2 == Distance2(phBubbles[i], phBubbles[j])
      minDistance == phBubbles[i].radius + phBubbles[j].radius
                       + PHYSICS_CONFIG.desiredSpacing * UNIT
  IN  d2 > 0 /\ d2 < minDistance * minDistance

\* C15: in every updatePhysics step of part_000, whatever the number of
\* bubbles, every pair of distinct bubbles at a distance d with
\* 0 < d < radiusA + radiusB + desiredSpacing gets the repulsion: one of the
\* two queries returns the other and handleBubbleCollision is called on it.
C15_EveryClosePairRepelled ==
  phTicks > 0 =>
    \A i, j \in 1..Len(phBubbles) :
      (i < j /\ Interacting(i, j)) =>
        /\ FoundNear(i, j) \/ FoundNear(j, i)
        /\ CallsOnPair(i, j) # {}

\* the places of the tree that hold bubble i: a node and a position in its
\* list
PlacesOf(tree, i) ==
  {pk \in UNION {{<<p, k>> : k \in 1..Len(tree.nodes[p].bubbles)} : p \in DOMAIN tree.nodes} :
     tree.nodes[pk[1]].bubbles[pk[2]] = i}

\* C16: in every step on the batch, the quadtree the collision queries run
\* on holds every bubble of the batch exactly once and nothing else: no
\* insert of a bubble of the batch is rejected.
C16_TreeHoldsTheBatch ==
  (phLast # None /\ phLast.arg = "batch") =>
    /\ \A i \in 1..Len(phBubbles) : Cardinality(PlacesOf(phPm.quadTree, i)) = 1
    /\ \A p \in DOMAIN phPm.quadTree.nodes :
         \A k \in 1..Len(phPm.quadTree.nodes[p].bubbles) :
           phPm.quadTree.nodes[p].bubbles[k] \in 1..Len(phBubbles)

\* v is the value of lo..hi nearest to x
Nearest(v, x, lo, hi) ==
  /\ lo <= v /\ v <= hi
  /\ x < lo => v = lo
  /\ x > hi => v = hi
  /\ (lo <= x /\ x <= hi) => v = x

\* what a step on the batch makes of bubble i at the walls: the bubble after
\* damping and integration, and after the walls; the position the step
\* leaves is the one after the walls
AtWalls(i) ==
  LET integrated == UpdatePosition(ApplyDamping(phBubbles[i]))
  IN  [before |-> integrated, after |-> HandleWallCollisions(phPm, integrated),
       left |-> phBubbles'[i]]

\* bounce and clamp for bubble i in a step on the batch
BouncedAndClamped(i) ==
  LET w == AtWalls(i)
      b == w.before
      a == w.after
  IN  /\ w.left.x = a.x /\ w.left.y = a.y
      /\ (b.x + b.radius > phPm.canvasWidth \/ b.x - b.radius < 0) =>
           /\ a.vx = -b.vx
           /\ Nearest(a.x, b.x, b.radius, phPm.canvasWidth - b.radius)
      /\ (b.y - b.radius < phPm.topBoundary \/ b.y + b.radius > phPm.canvasHeight) =>
           /\ a.vy = -b.vy
           /\ Nearest(a.y, b.y, phPm.topBoundary + b.radius, phPm.canvasHeight - b.radius)

PolicyCoefficient(large, distance) ==
  IF ~large THEN 20 * UNIT
  ELSE IF distance <= 150 * UNIT THEN 100 * UNIT
  ELSE 100 * UNIT + (distance - 150 * UNIT)

\* bubble i is large by the policy: its radius is at least 0.7 times the
\* largest radius of the batch
PolicyLarge(bubbles, i) ==
  \A j \in 1..Len(bubbles) : 10 * bubbles[i].radius >= 7 * bubbles[j].radius

\* no call of handleBubbleCollision in the list changed a bubble
NoRepulsion(calls) == \A k \in 1..Len(calls) : calls[k].after = calls[k].before

\* the step on the batch treats bubble i by the policy: the manager takes it
\* for large exactly when the policy does, and, when the step repels no
\* bubble, the velocity it leaves is the velocity after the walls plus the
\* offset to the focal point times the policy's coefficient
TreatedByPolicy(i) ==
  LET b     == AtWalls(i).after
      large == PolicyLarge(phBubbles, i)
      dx    == phPm'.centerX - b.x
      dy    == phPm'.centerY - b.y
      coef  == PolicyCoefficient(large, ISqrt(dx * dx + dy * dy))
  IN  /\ IsLargeBubble(phVariant, phPm', b) <=> large
      /\ NoRepulsion(phCalls') =>
           /\ phBubbles'[i].vx = b.vx + Trunc(dx * coef, 10000 * UNIT)
           /\ phBubbles'[i].vy = b.vy + Trunc(dy * coef, 10000 * UNIT)

\* C18: in each step of part_000 a bubble is large exactly when its radius is
\* at least 0.7 times the largest radius of the batch, so that the largest is
\* large; the pull is 0.002 for a normal bubble, 0.01 for a large one inside
\* the central radius of 150 and 0.01 + 0.0001 * (distance - 150) outside; at
\* any distance the large coefficient is greater than the normal one and does
\* not decrease with the distance.
C18_LargeBubblePolicy ==
  [][(phTicks' = phTicks + 1 /\ phVariant = "part000") =>
       /\ \A i \in 1..Len(phBubbles) : TreatedByPolicy(i)
       /\ \E i \in 1..Len(phBubbles) : IsLargeBubble(phVariant, phPm', AtWalls(i).after)
       /\ \A i \in 1..Len(phBubbles) :
            LET b == AtWalls(i).after
                distance == ISqrt(Distance2(b, [x |-> phPm'.centerX, y |-> phPm'.centerY]))
            IN  /\ PolicyCoefficient(TRUE, distance) > PolicyCoefficient(FALSE, distance)
                /\ PolicyCoefficient(TRUE, distance + 1) >= PolicyCoefficient(TRUE, distance)]_vars

\* after a step of part_000 without repulsion: a large bubble outside the
\* central radius and a normal one in the same batch
C18_Witness ==
  /\ phVariant = "part000"
  /\ phLast.arg = "batch"
  /\ NoRepulsion(phCalls)
  /\ \E i \in 1..Len(phBubbles) :
       /\ PolicyLarge(phBubbles, i)
       /\ Distance2(phBubbles[i], [x |-> phPm.centerX, y |-> phPm.centerY])
            > (150 * UNIT) * (150 * UNIT)
  /\ \E j \in 1..Len(phBubbles) :
       /\ ~PolicyLarge(phBubbles, j)
       /\ phBubbles[j].vx # 0

\* the data of the bubbles of a collection, in order: its membership
Members(bubbles) ==
  IF Len(bubbles) = 0 THEN << >>
  ELSE [k \in 1..Len(bubbles) |-> bubbles[k].data]

\* how often datum d occurs in a data array
TimesIn(d, data) == Cardinality({k \in 1..Len(data) : data[k] = d})

\* the largest spawn speed, 0.05: (Math.random() - 0.5) * 0.1
SpawnSpeed == UNIT \div 20

\* the collection is a batch made of the data array: one bubble per datum,
\* each with both velocity components within the spawn speed
FreshBatch(bubbles, data) ==
  /\ Len(bubbles) = Len(data)
  /\ \A k \in 1..Len(data) : TimesIn(data[k], Members(bubbles)) = TimesIn(data[k], data)
  /\ \A k \in 1..Len(bubbles) :
       /\ bubbles[k].vx \in (-SpawnSpeed)..SpawnSpeed
       /\ bubbles[k].vy \in (-SpawnSpeed)..SpawnSpeed

\* the step is an initializeBubbles that runs to its end: on mount, in the
\* frame after a resize, or by reinitialize, on a live pixiApp
Constructing ==
  \E draw \in SsDraws :
    \/ SsInitialized(draw)
    \/ ssApp # None /\ (SsAnimationFrame(draw) \/ SsReinitialize(draw))

\* C19: after every initializeBubbles that runs to its end (on mount, after
\* a resize, by reinitialize) the collection holds one bubble per datum of
\* the data array, as many as it has data (so none of an earlier batch),
\* each with velocity components within 0.05, and the array holds the same
\* data as before; no other step between two constructions changes the
\* membership: only destroyPixi does, which empties the collection, and no
\* construction follows it.
C19_AtomicBatchReplacement ==
  /\ [][Constructing =>
          /\ FreshBatch(phBubbles', ssData')
          /\ Len(ssData') = Len(ssData)
          /\ \A k \in 1..Len(ssData) :
               TimesIn(ssData[k], ssData') = TimesIn(ssData[k], ssData)]_vars
  /\ [][~Constructing =>
          \/ Members(phBubbles') = Members(phBubbles)
          \/ SsDestroyPixi]_vars
  /\ [][ssPhase = "unmounted" => ~Constructing]_vars

\* a batch of two bubbles, just made with the second draw, on a component
\* that has ticked: the batch before it was replaced
C19_Witness ==
  /\ ssPhase = "mounted"
  /\ phTicks > 0
  /\ ssFrames = 0
  /\ ssEvents > 0
  /\ Len(phBubbles) = 2
  /\ \E draw \in SsDraws :
       /\ draw.lines = 2
       /\ phBubbles = InitializeBubbles(phVariant, ssApp[1], ssData, draw).bubbles

\* the walls leave bubble i of a step on the batch as integration left it
UntouchedAtWalls(i) ==
  LET w == AtWalls(i)
  IN  /\ w.after.x = w.before.x /\ w.after.y = w.before.y
      /\ w.after.vx = w.before.vx /\ w.after.vy = w.before.vy
      /\ w.left.x = w.before.x /\ w.left.y = w.before.y

\* C20: in a step, a bubble whose circle after integration lies wholly inside
\* the play area (radius <= x <= canvasWidth - radius and titleHeight +
\* radius <= y <= canvasHeight - radius) keeps its position and both velocity
\* components through the walls.
C20_NoOpInsidePlayArea ==
  [][phTicks' = phTicks + 1 =>
       \A i \in 1..Len(phBubbles) :
         InsideCanvas(phPm, AtWalls(i).before) => UntouchedAtWalls(i)]_vars

\* C21: in a step of usePixiBubbleChart.ts, every pair of distinct bubbles of
\* which one was returned by the queryRange around the other has had exactly
\* one call of handleBubbleCollision: no pair is skipped because the key of
\* another pair was in processedPairs.
C21_EveryFoundPairEvaluatedOnce ==
  phVariant = "ts" =>
    \A i, j \in 1..Len(phBubbles) :
      (i # j /\ FoundNear(i, j)) => Cardinality(CallsOnPair(i, j)) = 1

\* activeBubble is null or a bubble of the batch in bubbleContainers
ActiveIsCurrent(active) == active # None => active[1].current

\* C22: in every state activeBubble is null or a bubble of the current
\* batch, and the tooltip a tick of updatePhysics makes visible is that of a
\* bubble of the current batch, never of a batch that was replaced.
C22_HoverReferenceValid ==
  /\ []ActiveIsCurrent(ssActive)
  /\ [][(phTicks' = phTicks + 1 /\ ssTooltip'.visible) =>
          (ssActive' # None /\ ssActive'[1].current)]_vars

\* C23: for non-negative integer counts with total = positivo + neutro +
\* negativo > 0, the error 100 - (sum of the three roundings) is -1, 0 or 1,
\* the sum is 100 after the one adjustment, and calculatePercentages does not
\* take the branch that adds the residual to negativo.
C23_FallbackUnreachable ==
  (pctRun # None /\ pctData[1].total > 0) =>
    LET run == pctRun[1]
    IN  /\ 100 - SumValues(run.rounded) \in {-1, 0, 1}
        /\ run.error = 100 - SumValues(run.rounded)
        /\ ~run.fallback
        /\ SumValues(run.result) = SumValues(run.rounded) + run.error

\* a call on which the roundings summed to 99, the first category was raised
\* and the last branch was not taken
C23_Witness ==
  /\ pctRun # None
  /\ pctData[1].total > 0
  /\ SumValues(pctRun[1].rounded) = 99
  /\ pctRun[1].keyToAdjust = "positivo"
  /\ pctRun[1].result.positivo = pctRun[1].rounded.positivo + 1
  /\ ~pctRun[1].fallback

\* the manager pm is one for the renderer and the title at hand
ManagerFor(pm, variant, renderer, title) ==
  /\ pm.canvasWidth = renderer.width
  /\ pm.canvasHeight = renderer.height
  /\ pm.topBoundary = ActualTitleHeight(variant, renderer, title)

\* C24: the manager a tick of updatePhysics steps the batch with has the
\* renderer's width and height of that tick, and in part_000 the title's
\* height of that tick; the tick makes a new manager exactly when the
\* cached values differ from these: those of the cached manager when there
\* is one, the initial lastCanvasWidth, lastCanvasHeight (and
\* lastTitleHeight) when there is none yet.
C24_PhysicsContextNeverStale ==
  [][(phTicks' = phTicks + 1 /\ ssApp # None) =>
       LET renderer == ssApp[1]
           now == CanvasNow(phVariant, renderer, ssTitle, ssLast)
       IN  /\ ManagerFor(phPm', phVariant, renderer, ssTitle)
           /\ NeedsNewManager(phPm, ssLast, now) <=> ssLast # now
           /\ phPm # None =>
                (ssLast # now <=> ~ManagerFor(phPm, phVariant, renderer, ssTitle))]_vars

\* after the second tick, which came after a resize and before the respawn
\* for the new size: the manager is one for the new size
C24_Witness ==
  /\ phTicks = 2
  /\ ssApp # None
  /\ ssSpawned # None
  /\ ssSpawned # ssApp
  /\ ssSpawned[1].width # ssApp[1].width
  /\ ssStale
  /\ ManagerFor(phPm, phVariant, ssApp[1], ssTitle)

\* C25: initializeBubbles of part_000 leaves data.value as it was, in
\* contents and in order.
C25_InputUnchanged ==
  [][phVariant = "part000" => ssData' = ssData]_vars

\* two records of a bubble with the same position and radius
SamePlace(a, b) == a.x = b.x /\ a.y = b.y /\ a.radius = b.radius

\* a call of handleBubbleCollision left the positions and radii of its two
\* bubbles and changed their velocities by equal and opposite amounts
VelocitiesOnly(call) ==
  /\ SamePlace(call.after[1], call.before[1])
  /\ SamePlace(call.after[2], call.before[2])
  /\ call.after[1].vx - call.before[1].vx = -(call.after[2].vx - call.before[2].vx)
  /\ call.after[1].vy - call.before[1].vy = -(call.after[2].vy - call.before[2].vy)

\* C26: in a step on the batch, the position and radius the step leaves a
\* bubble with are those it had after the walls, when the quadtree was
\* rebuilt: the node that holds it contains it as it is at the end of the
\* step, every call of handleBubbleCollision read these positions, left
\* them, and changed the velocities of its two bubbles by equal and opposite
\* amounts.
C26_CollisionPassChangesVelocitiesOnly ==
  [][phTicks' = phTicks + 1 =>
       /\ \A i \in 1..Len(phBubbles) :
            /\ SamePlace(phBubbles'[i], AtWalls(i).after)
            /\ \A pk \in PlacesOf(phPm'.quadTree, i) :
                 Contains(phVariant, BoundaryOf(phPm'.quadTree.boundary, pk[1]),
                          phBubbles'[i])
       /\ \A k \in 1..Len(phCalls') :
            /\ VelocitiesOnly(phCalls'[k])
            /\ SamePlace(phCalls'[k].before[1], phBubbles'[phCalls'[k].a])
            /\ SamePlace(phCalls'[k].before[2], phBubbles'[phCalls'[k].b])]_vars

\* after a step in which a call of handleBubbleCollision changed both
\* velocity components of its two bubbles
C26_Witness ==
  /\ phTicks >= 1
  /\ \E k \in 1..Len(phCalls) :
       /\ phCalls[k].after[1].vx # phCalls[k].before[1].vx
       /\ phCalls[k].after[1].vy # phCalls[k].before[1].vy
       /\ phCalls[k].after[2].vx # phCalls[k].before[2].vx
       /\ VelocitiesOnly(phCalls[k])

====
